---- MODULE Spec2Model ----
(***************************************************************************)
(* Rule based Snuba -> Clickhouse expression translator                    *)
(* (snuba/clickhouse/translator/rulesbased.py): the TranslationRules       *)
(* registry, its concat, the translator's dispatch and the seven default   *)
(* rules.  Expression nodes carry an id field standing for Python object   *)
(* identity; structural equality (dataclass __eq__) ignores it.            *)
(***************************************************************************)
EXTENDS Integers, Sequences, FiniteSets, TLC

VARIABLES
    caller_rules,       \* the TranslationRules handed to __init__
    translation_rules,  \* SnubaClickhouseRulesTranslator.__translation_rules
    entry,              \* the translate_* method the caller invoked last
    source,             \* the expression handed to it
    result,             \* what the call returned, or the exception it raised
    calls,              \* attempt_map invocations and dispatches of that call
    regA, regB, regC,   \* three caller authored registries
    regAB, regBC,       \* regA.concat(regB), regB.concat(regC)
    regAB_C, regA_BC,   \* (A.concat(B)).concat(C), A.concat(B.concat(C))
    step,               \* position in the composition script
    heap_next,          \* the next object identity of the shared heap
    workers,            \* the threads translating the shared tree
    uuid_columns,       \* UUIDColumnProcessor.__unique_uuid_columns
    condition,          \* the expression handed to match / process_condition
    pattern,            \* the pattern whose match was called last
    match_result,       \* what that match returned
    processed,          \* what process_condition returned
    query,              \* the Query handed to the consistency enforcer
    query_before,       \* that Query as it was when process_query was called
    request_settings,   \* the RequestSettings of the request (turbo)
    config,             \* the runtime configuration get_config reads
    replacer,           \* what the project id and replacement state lookups answer
    outcome,            \* how process_query ended
    emitted,            \* the metrics and warnings process_query emitted
    tree,               \* the condition (or expression) object a caller holds
    tree_before,        \* that object as it was when the call was made
    called,             \* the operation called on it last
    func,               \* the function handed to transform
    visited,            \* what iterating the object yielded
    revisited,          \* what iterating it a second time yielded
    transformed,        \* what transform returned
    pipeline            \* a Query on its way through the query processors

vars == <<caller_rules, translation_rules, entry, source, result, calls,
          regA, regB, regC, regAB, regBC, regAB_C, regA_BC, step,
          heap_next, workers,
          uuid_columns, condition, pattern, match_result, processed,
          query, query_before, request_settings, config, replacer, outcome, emitted,
          tree, tree_before, called, func, visited, revisited, transformed,
          pipeline>>

translatorVars == <<caller_rules, translation_rules, entry, source, result, calls>>
concatVars == <<regA, regB, regC, regAB, regBC, regAB_C, regA_BC, step>>
concurrentVars == <<heap_next, workers>>
uuidVars == <<uuid_columns, condition, pattern, match_result, processed>>
enforcerVars == <<query, query_before, request_settings, config, replacer,
                  outcome, emitted>>
processorVars == <<uuidVars, enforcerVars>>
treeVars == <<tree, tree_before, called, func, visited, revisited, transformed>>
pipelineVars == <<pipeline>>

(***************************************************************************)
(* Bounds                                                                  *)
(***************************************************************************)
MaxDepth == 1        \* nesting of composite nodes around the base nodes
MaxRules == 2        \* caller rules in one registry handed to a translator
MaxConcatRules == 2  \* caller rules in each operand of concat
MaxSharedRules == 1  \* caller rules in the registry two threads share

(***************************************************************************)
(* Values                                                                  *)
(***************************************************************************)
NoAlias == "None"                       \* Python None in an alias/table field
NoneValue == [kind |-> "None"]          \* Python None returned by a rule
Raised(exc) == [kind |-> "Raise", exc |-> exc]
NotConstructed == [kind |-> "None"]     \* no translator / no call yet

\* Evaluate x once and hand its value to Op (Python's "v = x; ...").
Bind(x, Op(_)) == CHOOSE v \in {Op(r) : r \in {x}} : TRUE

IsNone(x) == x.kind = "None"
IsRaise(x) == x.kind = "Raise"
IsNode(x) == x.kind \notin {"None", "Raise"}

Kinds == {"Column", "Literal", "Argument", "FunctionCall",
          "CurriedFunctionCall", "SubscriptableReference", "Lambda"}

\* The rule list of TranslationRules that holds the rules of a node kind.
ListOf(kind) ==
    CASE kind = "Column" -> "columns"
      [] kind = "Literal" -> "literals"
      [] kind = "Argument" -> "arguments"
      [] kind = "FunctionCall" -> "functions"
      [] kind = "CurriedFunctionCall" -> "curried_functions"
      [] kind = "SubscriptableReference" -> "subscriptables"
      [] kind = "Lambda" -> "lambdas"

Lists == {"columns", "literals", "functions", "curried_functions",
          "subscriptables", "lambdas", "arguments"}

(***************************************************************************)
(* Expression nodes (snuba.query.expressions, as the tests build them)     *)
(***************************************************************************)
Column(id, alias, column_name, table_name) ==
    [kind |-> "Column", id |-> id, alias |-> alias,
     column_name |-> column_name, table_name |-> table_name]

Literal(id, alias, value) ==
    [kind |-> "Literal", id |-> id, alias |-> alias, value |-> value]

Argument(id, alias, name) ==
    [kind |-> "Argument", id |-> id, alias |-> alias, name |-> name]

FunctionCall(id, alias, function_name, parameters) ==
    [kind |-> "FunctionCall", id |-> id, alias |-> alias,
     function_name |-> function_name, parameters |-> parameters]

CurriedFunctionCall(id, alias, internal_function, parameters) ==
    [kind |-> "CurriedFunctionCall", id |-> id, alias |-> alias,
     internal_function |-> internal_function, parameters |-> parameters]

SubscriptableReference(id, alias, column, key) ==
    [kind |-> "SubscriptableReference", id |-> id, alias |-> alias,
     column |-> column, key |-> key]

Lambda(id, alias, parameters, transformation) ==
    [kind |-> "Lambda", id |-> id, alias |-> alias,
     parameters |-> parameters, transformation |-> transformation]

RECURSIVE Strip(_)
RECURSIVE Iter(_)
RECURSIVE IterSeq(_)
RECURSIVE Label(_, _)
RECURSIVE LabelSeq(_, _)

\* Structural value of a tree: the tree with every identity erased.
\* Two trees are == in Python iff their Strip is equal.
Strip(e) ==
    CASE e.kind = "FunctionCall" ->
            [e EXCEPT !.id = 0,
                      !.parameters = [i \in DOMAIN e.parameters |-> Strip(e.parameters[i])]]
      [] e.kind = "CurriedFunctionCall" ->
            [e EXCEPT !.id = 0,
                      !.internal_function = Strip(e.internal_function),
                      !.parameters = [i \in DOMAIN e.parameters |-> Strip(e.parameters[i])]]
      [] e.kind = "SubscriptableReference" ->
            [e EXCEPT !.id = 0, !.column = Strip(e.column), !.key = Strip(e.key)]
      [] e.kind = "Lambda" ->
            [e EXCEPT !.id = 0, !.transformation = Strip(e.transformation)]
      [] OTHER -> [e EXCEPT !.id = 0]

\* Expression.__iter__: the node, then its children, pre-order.
Iter(e) ==
    CASE e.kind = "FunctionCall" -> <<e>> \o IterSeq(e.parameters)
      [] e.kind = "CurriedFunctionCall" ->
            <<e>> \o Iter(e.internal_function) \o IterSeq(e.parameters)
      [] e.kind = "SubscriptableReference" ->
            <<e>> \o Iter(e.column) \o Iter(e.key)
      [] e.kind = "Lambda" -> <<e>> \o Iter(e.transformation)
      [] e.kind = "AliasedExpression" -> <<e>> \o Iter(e.node)
      [] OTHER -> <<e>>

IterSeq(ps) ==
    IF Len(ps) = 0 THEN <<>> ELSE Iter(Head(ps)) \o IterSeq(Tail(ps))

NodeIds(e) == {Iter(e)[i].id : i \in DOMAIN Iter(e)}

\* Object creation when the caller builds a tree: every node is its own
\* object; ids are handed out from n in construction (pre-order) order.
Label(e, n) ==
    CASE e.kind = "FunctionCall" ->
            Bind(LabelSeq(e.parameters, n + 1), LAMBDA ps :
                [exp |-> [e EXCEPT !.id = n, !.parameters = ps.exps], next |-> ps.next])
      [] e.kind = "CurriedFunctionCall" ->
            Bind(Label(e.internal_function, n + 1), LAMBDA f :
            Bind(LabelSeq(e.parameters, f.next), LAMBDA ps :
                [exp |-> [e EXCEPT !.id = n, !.internal_function = f.exp,
                                   !.parameters = ps.exps],
                 next |-> ps.next]))
      [] e.kind = "SubscriptableReference" ->
            Bind(Label(e.column, n + 1), LAMBDA c :
            Bind(Label(e.key, c.next), LAMBDA k :
                [exp |-> [e EXCEPT !.id = n, !.column = c.exp, !.key = k.exp],
                 next |-> k.next]))
      [] e.kind = "Lambda" ->
            Bind(Label(e.transformation, n + 1), LAMBDA b :
                [exp |-> [e EXCEPT !.id = n, !.transformation = b.exp], next |-> b.next])
      [] OTHER -> [exp |-> [e EXCEPT !.id = n], next |-> n + 1]

LabelSeq(ps, n) ==
    IF Len(ps) = 0 THEN [exps |-> <<>>, next |-> n]
    ELSE Bind(Label(Head(ps), n), LAMBDA h :
         Bind(LabelSeq(Tail(ps), h.next), LAMBDA t :
             [exps |-> <<h.exp>> \o t.exps, next |-> t.next]))

(***************************************************************************)
(* Rules and registries                                                    *)
(***************************************************************************)
Rule(type, from, to) == [type |-> type, from |-> from, to |-> to]
NoRule == Rule("", "", "")

\* TranslationRules(): every list defaults to the empty list.
TranslationRules ==
    [columns |-> <<>>, literals |-> <<>>, functions |-> <<>>,
     curried_functions |-> <<>>, subscriptables |-> <<>>, lambdas |-> <<>>,
     arguments |-> <<>>]

\* A variant of concat that puts spec's rules in front of self's.
concat_reversed(self, spec) ==
    [l \in Lists |-> spec[l] \o self[l]]

\* A variant of concat with a slip in one line: the columns of the result
\* are built from self twice, spec's column rules are lost.
concat_self_twice(self, spec) ==
    [columns |-> self.columns \o self.columns,
     literals |-> self.literals \o spec.literals,
     functions |-> self.functions \o spec.functions,
     curried_functions |-> self.curried_functions \o spec.curried_functions,
     subscriptables |-> self.subscriptables \o spec.subscriptables,
     lambdas |-> self.lambdas \o spec.lambdas,
     arguments |-> self.arguments \o spec.arguments]

\* TranslationRules.concat
concat(self, spec) ==
    [columns |-> self.columns \o spec.columns,
     literals |-> self.literals \o spec.literals,
     functions |-> self.functions \o spec.functions,
     curried_functions |-> self.curried_functions \o spec.curried_functions,
     subscriptables |-> self.subscriptables \o spec.subscriptables,
     lambdas |-> self.lambdas \o spec.lambdas,
     arguments |-> self.arguments \o spec.arguments]

\* The default rules __init__ builds, one per list.
default_rules ==
    [columns |-> <<Rule("DefaultColumnMapper", "", "")>>,
     literals |-> <<Rule("DefaultLiteralMapper", "", "")>>,
     functions |-> <<Rule("DefaultFunctionMapper", "", "")>>,
     curried_functions |-> <<Rule("DefaultCurriedFunctionMapper", "", "")>>,
     subscriptables |-> <<Rule("DefaultSubscriptableMapper", "", "")>>,
     lambdas |-> <<Rule("DefaultLambdaMapper", "", "")>>,
     arguments |-> <<Rule("DefaultArgumentMapper", "", "")>>]

IsDefault(rule) ==
    rule.type \in {"DefaultColumnMapper", "DefaultLiteralMapper",
                   "DefaultFunctionMapper", "DefaultCurriedFunctionMapper",
                   "DefaultSubscriptableMapper", "DefaultLambdaMapper",
                   "DefaultArgumentMapper"}

\* SnubaClickhouseRulesTranslator.__init__: the rules the translator keeps.
init_rules(rules) == concat(rules, default_rules)

(***************************************************************************)
(* The translation, threaded through st = [next, log]: next is the next    *)
(* free object identity, log the record of rule invocations.               *)
(***************************************************************************)
Ret(ret, st) == [ret |-> ret, st |-> st]

LogEvent(st, ev, list, idx, rule, exp, ret) ==
    [st EXCEPT !.log = Append(@, [ev |-> ev, list |-> list, idx |-> idx,
                                  rule |-> rule, node |-> exp.id,
                                  nodeKind |-> exp.kind, ret |-> ret])]

\* The name a caller rule looks at to decide whether it applies.
NameOf(e) ==
    CASE e.kind = "Column" -> e.column_name
      [] e.kind = "Literal" -> e.value
      [] e.kind = "Argument" -> e.name
      [] e.kind = "FunctionCall" -> e.function_name
      [] e.kind = "CurriedFunctionCall" -> "curried"
      [] e.kind = "SubscriptableReference" -> "subscript"
      [] e.kind = "Lambda" -> "lambda"

\* copy.deepcopy: a structurally equal tree made of new objects.
deepcopy(e, st) ==
    Bind(Label(e, st.next), LAMBDA l : Ret(l.exp, [st EXCEPT !.next = l.next]))

RECURSIVE translate_expression(_, _, _)
RECURSIVE translate_column(_, _, _)
RECURSIVE translate_literal(_, _, _)
RECURSIVE translate_function_call(_, _, _)
RECURSIVE translate_curried_function_call(_, _, _)
RECURSIVE translate_subscriptable_reference(_, _, _)
RECURSIVE translate_lambda(_, _, _)
RECURSIVE translate_argument(_, _, _)
RECURSIVE map_expression(_, _, _, _)
RECURSIVE map_from(_, _, _, _, _)
RECURSIVE map_all_from(_, _, _, _, _, _)
RECURSIVE map_from_passthrough(_, _, _, _, _)
RECURSIVE attempt_map(_, _, _, _)
RECURSIVE translate_parameters(_, _, _)
RECURSIVE DefaultFunctionMapper(_, _, _)
RECURSIVE DefaultCurriedFunctionMapper(_, _, _)
RECURSIVE DefaultSubscriptableMapper(_, _, _)
RECURSIVE DefaultLambdaMapper(_, _, _)
RECURSIVE TagMapper(_, _, _, _)

\* tuple(children_translator.translate_expression(p) for p in parameters):
\* left to right, the first exception ends the loop.
translate_parameters(T, ps, st) ==
    IF Len(ps) = 0 THEN Ret([kind |-> "Tuple", items |-> <<>>], st)
    ELSE Bind(translate_expression(T, Head(ps), st), LAMBDA h :
            IF IsRaise(h.ret) THEN h
            ELSE Bind(translate_parameters(T, Tail(ps), h.st), LAMBDA t :
                    IF IsRaise(t.ret) THEN t
                    ELSE Ret([kind |-> "Tuple", items |-> <<h.ret>> \o t.ret.items],
                             t.st)))

\* A variant of the default column rule that hands back the node it was given.
DefaultColumnMapper_no_copy(expression, T, st) == Ret(expression, st)

\* DefaultColumnMapper.attempt_map
DefaultColumnMapper(expression, T, st) == deepcopy(expression, st)

\* A variant of the default literal rule that looks at where it runs: a
\* literal met after other objects were already built comes out renamed.
DefaultLiteralMapper_positional(expression, T, st) ==
    IF st.next > Len(Iter(expression)) + 1
    THEN Ret(Literal(st.next, expression.alias, "nested"), [st EXCEPT !.next = @ + 1])
    ELSE deepcopy(expression, st)

\* A variant of the default literal rule that hands back the node it was given.
DefaultLiteralMapper_no_copy(expression, T, st) == Ret(expression, st)

\* DefaultLiteralMapper.attempt_map
DefaultLiteralMapper(expression, T, st) == deepcopy(expression, st)

\* DefaultArgumentMapper.attempt_map
DefaultArgumentMapper(expression, T, st) == deepcopy(expression, st)

\* A variant of the default function rule that rebuilds the call with its
\* parameters in reverse order.
DefaultFunctionMapper_reversed(expression, T, st) ==
    IF expression.kind # "FunctionCall" THEN Ret(NoneValue, st)
    ELSE Bind(translate_parameters(T, expression.parameters, st), LAMBDA ps :
            IF IsRaise(ps.ret) THEN ps
            ELSE Ret([expression EXCEPT
                         !.id = ps.st.next,
                         !.parameters = [i \in 1..Len(ps.ret.items) |->
                                            ps.ret.items[Len(ps.ret.items) + 1 - i]]],
                     [ps.st EXCEPT !.next = @ + 1]))

\* DefaultFunctionMapper.attempt_map
DefaultFunctionMapper(expression, T, st) ==
    IF expression.kind # "FunctionCall" THEN Ret(NoneValue, st)
    ELSE Bind(translate_parameters(T, expression.parameters, st), LAMBDA ps :
            IF IsRaise(ps.ret) THEN ps
            ELSE Ret([expression EXCEPT !.id = ps.st.next,
                                        !.parameters = ps.ret.items],
                     [ps.st EXCEPT !.next = @ + 1]))

\* A variant of the default curried rule that translates the inner function
\* and hands the outer parameters over as they are.
DefaultCurriedFunctionMapper_parameters_kept(expression, T, st) ==
    IF expression.kind # "CurriedFunctionCall" THEN Ret(NoneValue, st)
    ELSE Bind(translate_function_call(T, expression.internal_function, st), LAMBDA f :
            IF IsRaise(f.ret) THEN f
            ELSE Ret(CurriedFunctionCall(f.st.next, expression.alias,
                                         f.ret, expression.parameters),
                     [f.st EXCEPT !.next = @ + 1]))

\* A variant of the default curried rule that sends the inner function to
\* the curried-function rules instead of the function rules.
DefaultCurriedFunctionMapper_wrong_list(expression, T, st) ==
    IF expression.kind # "CurriedFunctionCall" THEN Ret(NoneValue, st)
    ELSE Bind(translate_curried_function_call(T, expression.internal_function, st),
              LAMBDA f :
            IF IsRaise(f.ret) THEN f
            ELSE Bind(translate_parameters(T, expression.parameters, f.st), LAMBDA ps :
                    IF IsRaise(ps.ret) THEN ps
                    ELSE Ret(CurriedFunctionCall(ps.st.next, expression.alias,
                                                 f.ret, ps.ret.items),
                             [ps.st EXCEPT !.next = @ + 1])))

\* DefaultCurriedFunctionMapper.attempt_map
DefaultCurriedFunctionMapper(expression, T, st) ==
    IF expression.kind # "CurriedFunctionCall" THEN Ret(NoneValue, st)
    ELSE Bind(translate_function_call(T, expression.internal_function, st), LAMBDA f :
            IF IsRaise(f.ret) THEN f
            ELSE Bind(translate_parameters(T, expression.parameters, f.st), LAMBDA ps :
                    IF IsRaise(ps.ret) THEN ps
                    ELSE Ret(CurriedFunctionCall(ps.st.next, expression.alias,
                                                 f.ret, ps.ret.items),
                             [ps.st EXCEPT !.next = @ + 1])))

\* A variant of the default subscript rule that builds its result without
\* passing the alias on.
DefaultSubscriptableMapper_no_alias(expression, T, st) ==
    IF expression.kind # "SubscriptableReference" THEN Ret(Raised("AttributeError"), st)
    ELSE Bind(translate_column(T, expression.column, st), LAMBDA column :
            IF IsRaise(column.ret) THEN column
            ELSE IF column.ret.kind # "Column"
                 THEN Ret(Raised("AssertionError"), column.st)
            ELSE Bind(translate_literal(T, expression.key, column.st), LAMBDA key :
                    IF IsRaise(key.ret) THEN key
                    ELSE IF key.ret.kind # "Literal"
                         THEN Ret(Raised("AssertionError"), key.st)
                    ELSE Ret(SubscriptableReference(key.st.next, NoAlias,
                                                    column.ret, key.ret),
                             [key.st EXCEPT !.next = @ + 1])))

\* DefaultSubscriptableMapper.attempt_map.  The rule reads expression.column
\* without looking at the node's type first.
DefaultSubscriptableMapper(expression, T, st) ==
    IF expression.kind # "SubscriptableReference" THEN Ret(Raised("AttributeError"), st)
    ELSE Bind(translate_column(T, expression.column, st), LAMBDA column :
            IF IsRaise(column.ret) THEN column
            ELSE IF column.ret.kind # "Column"
                 THEN Ret(Raised("AssertionError"), column.st)
            ELSE Bind(translate_literal(T, expression.key, column.st), LAMBDA key :
                    IF IsRaise(key.ret) THEN key
                    ELSE IF key.ret.kind # "Literal"
                         THEN Ret(Raised("AssertionError"), key.st)
                    ELSE Ret(SubscriptableReference(key.st.next, expression.alias,
                                                    column.ret, key.ret),
                             [key.st EXCEPT !.next = @ + 1])))

\* DefaultLambdaMapper.attempt_map.  The rule reads expression.transformation
\* without looking at the node's type first.
DefaultLambdaMapper(expression, T, st) ==
    IF expression.kind # "Lambda" THEN Ret(Raised("AttributeError"), st)
    ELSE Bind(translate_expression(T, expression.transformation, st), LAMBDA body :
            IF IsRaise(body.ret) THEN body
            ELSE Ret([expression EXCEPT !.id = body.st.next,
                                        !.transformation = body.ret],
                     [body.st EXCEPT !.next = @ + 1]))

(***************************************************************************)
(* Caller supplied rules                                                   *)
(***************************************************************************)
\* ColumnMapper(from_col, None, to_col, None) of the translation tests.
ColumnMapper(rule, expression, T, st) ==
    IF expression.kind = "Column" /\ expression.column_name = rule.from
                                  /\ expression.table_name = NoAlias
    THEN Ret(Column(st.next, expression.alias, rule.to, NoAlias),
             [st EXCEPT !.next = @ + 1])
    ELSE Ret(NoneValue, st)

\* TagMapper(from_col, None, to_col, None) of the translation tests: the
\* subscript becomes arrayElement(to.value, indexOf(to.key, <key>)); the key
\* is translated by the translator the rule is given.
TagMapper(rule, expression, T, st) ==
    IF expression.kind = "SubscriptableReference"
       /\ expression.column.column_name = rule.from
       /\ expression.column.table_name = NoAlias
    THEN Bind(translate_literal(T, expression.key, st), LAMBDA key :
            IF IsRaise(key.ret) THEN key
            ELSE Ret(FunctionCall(key.st.next + 3, expression.alias, "arrayElement",
                        <<Column(key.st.next, NoAlias, rule.to \o ".value", NoAlias),
                          FunctionCall(key.st.next + 2, NoAlias, "indexOf",
                              <<Column(key.st.next + 1, NoAlias, rule.to \o ".key",
                                       NoAlias),
                                key.ret>>)>>),
                     [key.st EXCEPT !.next = @ + 4]))
    ELSE Ret(NoneValue, st)

\* A caller's rule that applies to no node.
NoMatchMapper(rule, expression, T, st) == Ret(NoneValue, st)

\* A caller's rule that maps the nodes named rule.from to a new node of the
\* kind rule.to, whatever the node's own kind is.
KindMapper(rule, expression, T, st) ==
    IF NameOf(expression) # rule.from THEN Ret(NoneValue, st)
    ELSE LET out == CASE rule.to = "Column" ->
                            Column(st.next, expression.alias, "mapped", NoAlias)
                      [] rule.to = "Literal" ->
                            Literal(st.next, expression.alias, "mapped")
                      [] rule.to = "FunctionCall" ->
                            FunctionCall(st.next, expression.alias, "mapped", <<>>)
         IN  Ret(out, [st EXCEPT !.next = @ + 1])

\* r.attempt_map(exp, self), by the class of r.
attempt_map(rule, expression, T, st) ==
    CASE rule.type = "DefaultColumnMapper" -> DefaultColumnMapper(expression, T, st)
      [] rule.type = "DefaultLiteralMapper" -> DefaultLiteralMapper(expression, T, st)
      [] rule.type = "DefaultArgumentMapper" -> DefaultArgumentMapper(expression, T, st)
      [] rule.type = "DefaultFunctionMapper" -> DefaultFunctionMapper(expression, T, st)
      [] rule.type = "DefaultCurriedFunctionMapper" ->
            DefaultCurriedFunctionMapper(expression, T, st)
      [] rule.type = "DefaultSubscriptableMapper" ->
            DefaultSubscriptableMapper(expression, T, st)
      [] rule.type = "DefaultLambdaMapper" -> DefaultLambdaMapper(expression, T, st)
      [] rule.type = "ColumnMapper" -> ColumnMapper(rule, expression, T, st)
      [] rule.type = "TagMapper" -> TagMapper(rule, expression, T, st)
      [] rule.type = "NoMatchMapper" -> NoMatchMapper(rule, expression, T, st)
      [] rule.type = "KindMapper" -> KindMapper(rule, expression, T, st)

\* A variant of the loop that hands the node back when no rule mapped it.
map_from_passthrough(T, exp, list, i, st) ==
    IF i > Len(T[list]) THEN Ret(exp, st)
    ELSE Bind(attempt_map(T[list][i], exp, T, st), LAMBDA r :
         Bind(LogEvent(r.st, "rule", list, i, T[list][i], exp, r.ret), LAMBDA logged :
            IF IsRaise(r.ret) \/ ~IsNone(r.ret) THEN Ret(r.ret, logged)
            ELSE map_from_passthrough(T, exp, list, i + 1, logged)))

\* The loop of __map_expression from the i-th rule on.
map_from(T, exp, list, i, st) ==
    IF i > Len(T[list]) THEN Ret(Raised("ValueError"), st)
    ELSE Bind(attempt_map(T[list][i], exp, T, st), LAMBDA r :
         Bind(LogEvent(r.st, "rule", list, i, T[list][i], exp, r.ret), LAMBDA logged :
            IF IsRaise(r.ret) \/ ~IsNone(r.ret) THEN Ret(r.ret, logged)
            ELSE map_from(T, exp, list, i + 1, logged)))

\* A loop that tries every rule and keeps the last result that is not None.
map_all_from(T, exp, list, i, st, last) ==
    IF i > Len(T[list])
    THEN IF IsNone(last) THEN Ret(Raised("ValueError"), st) ELSE Ret(last, st)
    ELSE Bind(attempt_map(T[list][i], exp, T, st), LAMBDA r :
         Bind(LogEvent(r.st, "rule", list, i, T[list][i], exp, r.ret), LAMBDA logged :
            IF IsRaise(r.ret) THEN Ret(r.ret, logged)
            ELSE map_all_from(T, exp, list, i + 1, logged,
                              IF IsNone(r.ret) THEN last ELSE r.ret)))

\* A variant of __map_expression that does not stop at the first match.
map_expression_last_match(T, exp, list, st) ==
    Bind(map_all_from(T, exp, list, 1, st, NoneValue), LAMBDA r :
        Ret(r.ret, LogEvent(r.st, "dispatch", list, 0, NoRule, exp, r.ret)))

\* SnubaClickhouseRulesTranslator.__map_expression(exp, rules), rules being
\* the list named `list` of the translator's rules T.
map_expression(T, exp, list, st) ==
    Bind(map_from(T, exp, list, 1, st), LAMBDA r :
        Ret(r.ret, LogEvent(r.st, "dispatch", list, 0, NoRule, exp, r.ret)))

translate_column(T, exp, st) == map_expression(T, exp, "columns", st)

translate_literal(T, exp, st) == map_expression(T, exp, "literals", st)

translate_function_call(T, exp, st) == map_expression(T, exp, "functions", st)

translate_curried_function_call(T, exp, st) ==
    map_expression(T, exp, "curried_functions", st)

translate_subscriptable_reference(T, exp, st) ==
    map_expression(T, exp, "subscriptables", st)

translate_lambda(T, exp, st) == map_expression(T, exp, "lambdas", st)

translate_argument(T, exp, st) == map_expression(T, exp, "arguments", st)

\* translate_expression: the per-kind dispatch of a node to its translate_*
\* method (the visitor's double dispatch).
translate_expression(T, exp, st) ==
    CASE exp.kind = "Column" -> translate_column(T, exp, st)
      [] exp.kind = "Literal" -> translate_literal(T, exp, st)
      [] exp.kind = "Argument" -> translate_argument(T, exp, st)
      [] exp.kind = "FunctionCall" -> translate_function_call(T, exp, st)
      [] exp.kind = "CurriedFunctionCall" -> translate_curried_function_call(T, exp, st)
      [] exp.kind = "SubscriptableReference" ->
            translate_subscriptable_reference(T, exp, st)
      [] exp.kind = "Lambda" -> translate_lambda(T, exp, st)

(***************************************************************************)
(* Inputs: expression trees and caller registries                          *)
(***************************************************************************)
c_col == Column(0, NoAlias, "col", NoAlias)
c_cola == Column(0, "alias", "cola", NoAlias)
c_col3 == Column(0, NoAlias, "col3", NoAlias)
l_123 == Literal(0, NoAlias, "123")
a_arg == Argument(0, "alias", "arg")
s_tags == SubscriptableReference(0, "tags[release]",
              Column(0, NoAlias, "tags", NoAlias), Literal(0, NoAlias, "release"))
s_col == SubscriptableReference(0, NoAlias, c_col, l_123)

\* Nodes without composite children, and the two subscripts.
BaseExprs == {c_col, c_cola, c_col3, l_123, a_arg, s_tags, s_col}

\* One more level of composite nodes around the trees of S.
Wrap(S) ==
    {FunctionCall(0, NoAlias, "f", <<p>>) : p \in S}
    \cup {FunctionCall(0, "alias", "g", <<p, l_123>>) : p \in S}
    \cup {CurriedFunctionCall(0, NoAlias, FunctionCall(0, NoAlias, "f", <<p>>),
                              <<c_cola>>) : p \in S}
    \cup {Lambda(0, NoAlias, <<"a", "b">>, p) : p \in S}

RECURSIVE Exprs(_)
Exprs(d) == IF d = 0 THEN BaseExprs ELSE BaseExprs \cup Wrap(Exprs(d - 1))

\* The trees handed to translate_expression, each node its own object.
SourceExprs == {Label(e, 1).exp : e \in Exprs(MaxDepth)}

\* The trees handed to the translate_<kind> methods directly.
DirectExprs == {Label(e, 1).exp : e \in BaseExprs \cup Wrap({c_col})}

\* The caller rules a registry is built from, each with its list.
RulePool ==
    {<<"columns", Rule("ColumnMapper", "col", "col2")>>,
     <<"columns", Rule("ColumnMapper", "cola", "colb")>>,
     <<"columns", Rule("ColumnMapper", "col", "colz")>>,
     <<"columns", Rule("KindMapper", "tags", "FunctionCall")>>,
     <<"columns", Rule("NoMatchMapper", "", "")>>,
     <<"literals", Rule("KindMapper", "release", "Column")>>,
     <<"functions", Rule("KindMapper", "f", "Column")>>,
     <<"functions", Rule("NoMatchMapper", "", "")>>,
     <<"subscriptables", Rule("TagMapper", "tags", "tags")>>,
     <<"curried_functions", Rule("NoMatchMapper", "", "")>>,
     <<"lambdas", Rule("NoMatchMapper", "", "")>>,
     <<"arguments", Rule("NoMatchMapper", "", "")>>}

\* The rules the operands of concat are built from.
ConcatPool ==
    {<<"columns", Rule("ColumnMapper", "col", "col2")>>,
     <<"columns", Rule("ColumnMapper", "col", "colz")>>,
     <<"functions", Rule("KindMapper", "f", "FunctionCall")>>}

\* The registries with at most n rules taken from pool.
RECURSIVE RegistriesUpTo(_, _)
RegistriesUpTo(pool, n) ==
    IF n = 0 THEN {TranslationRules}
    ELSE LET smaller == RegistriesUpTo(pool, n - 1)
         IN  smaller \cup {[r EXCEPT ![pr[1]] = Append(@, pr[2])] :
                              r \in smaller, pr \in pool}

Registries == RegistriesUpTo(RulePool, MaxRules)
ConcatRegistries == RegistriesUpTo(ConcatPool, MaxConcatRules)

\* The nodes translated through a composed registry.
ComposedExprs == {Label(e, 1).exp : e \in BaseExprs \cup Wrap({c_col})}

(***************************************************************************)
(* The translator: construction and the public translate methods           *)
(***************************************************************************)
Constructed == translation_rules # NotConstructed

\* No call is in progress or recorded: the caller may start one.
Idle == Constructed /\ entry = "none"

InitTranslator ==
    /\ caller_rules = NotConstructed
    /\ translation_rules = NotConstructed
    /\ entry = "none"
    /\ source = NotConstructed
    /\ result = NotConstructed
    /\ calls = <<>>

\* No composition script runs.
ConcatOff ==
    /\ regA = TranslationRules /\ regB = TranslationRules /\ regC = TranslationRules
    /\ regAB = NotConstructed /\ regBC = NotConstructed
    /\ regAB_C = NotConstructed /\ regA_BC = NotConstructed
    /\ step = "off"

\* No thread translates.
ConcurrentOff ==
    /\ heap_next = 0
    /\ workers = <<>>

\* No UUIDColumnProcessor exists.
UUIDOff ==
    /\ uuid_columns = {}
    /\ condition = NotConstructed
    /\ pattern = "none"
    /\ match_result = NotConstructed
    /\ processed = NotConstructed

\* No consistency enforcer runs.
EnforcerOff ==
    /\ query = NotConstructed
    /\ query_before = NotConstructed
    /\ request_settings = NotConstructed
    /\ config = NotConstructed
    /\ replacer = NotConstructed
    /\ outcome = "none"
    /\ emitted = {}

\* No condition is iterated or transformed.
TreeOff ==
    /\ tree = NotConstructed
    /\ tree_before = NotConstructed
    /\ called = "none"
    /\ func = "none"
    /\ visited = <<>>
    /\ revisited = <<>>
    /\ transformed = NotConstructed

\* No Query is on its way through the processors.
PipelineOff == pipeline = NotConstructed

Init ==
    /\ InitTranslator
    /\ ConcurrentOff /\ UUIDOff /\ EnforcerOff /\ TreeOff /\ PipelineOff
    /\ regA = TranslationRules /\ regB = TranslationRules /\ regC = TranslationRules
    /\ regAB = NotConstructed /\ regBC = NotConstructed
    /\ regAB_C = NotConstructed /\ regA_BC = NotConstructed
    /\ step = "off"

\* SnubaClickhouseRulesTranslator(rules)
Construct(rules) ==
    /\ ~Constructed
    /\ caller_rules' = rules
    /\ translation_rules' = init_rules(rules)
    /\ UNCHANGED <<entry, source, result, calls>>
    /\ UNCHANGED <<concatVars, concurrentVars, processorVars,
                 treeVars, pipelineVars>>

\* The state a call starts in: the objects of exp exist, nothing is logged.
Start(exp) == [next |-> Len(Iter(exp)) + 1, log |-> <<>>]

\* The effect of one call of a public method on the recorded state.
Called(name, exp, call) ==
    /\ entry' = name
    /\ source' = exp
    /\ \E r \in {call} : result' = r.ret /\ calls' = r.st.log
    /\ UNCHANGED <<caller_rules, translation_rules>>

TranslateExpression(exp) ==
    /\ Idle
    /\ Called("translate_expression", exp,
              translate_expression(translation_rules, exp, Start(exp)))
    /\ UNCHANGED <<concatVars, concurrentVars, processorVars,
                 treeVars, pipelineVars>>

TranslateColumn(exp) ==
    /\ Idle
    /\ Called("translate_column", exp,
              translate_column(translation_rules, exp, Start(exp)))
    /\ UNCHANGED <<concatVars, concurrentVars, processorVars,
                 treeVars, pipelineVars>>

TranslateLiteral(exp) ==
    /\ Idle
    /\ Called("translate_literal", exp,
              translate_literal(translation_rules, exp, Start(exp)))
    /\ UNCHANGED <<concatVars, concurrentVars, processorVars,
                 treeVars, pipelineVars>>

TranslateFunctionCall(exp) ==
    /\ Idle
    /\ Called("translate_function_call", exp,
              translate_function_call(translation_rules, exp, Start(exp)))
    /\ UNCHANGED <<concatVars, concurrentVars, processorVars,
                 treeVars, pipelineVars>>

TranslateCurriedFunctionCall(exp) ==
    /\ Idle
    /\ Called("translate_curried_function_call", exp,
              translate_curried_function_call(translation_rules, exp, Start(exp)))
    /\ UNCHANGED <<concatVars, concurrentVars, processorVars,
                 treeVars, pipelineVars>>

TranslateSubscriptableReference(exp) ==
    /\ Idle
    /\ Called("translate_subscriptable_reference", exp,
              translate_subscriptable_reference(translation_rules, exp, Start(exp)))
    /\ UNCHANGED <<concatVars, concurrentVars, processorVars,
                 treeVars, pipelineVars>>

TranslateLambda(exp) ==
    /\ Idle
    /\ Called("translate_lambda", exp,
              translate_lambda(translation_rules, exp, Start(exp)))
    /\ UNCHANGED <<concatVars, concurrentVars, processorVars,
                 treeVars, pipelineVars>>

TranslateArgument(exp) ==
    /\ Idle
    /\ Called("translate_argument", exp,
              translate_argument(translation_rules, exp, Start(exp)))
    /\ UNCHANGED <<concatVars, concurrentVars, processorVars,
                 treeVars, pipelineVars>>

\* The caller is done with the returned tree and drops it.
Discard ==
    /\ entry # "none"
    /\ entry' = "none"
    /\ source' = NotConstructed
    /\ result' = NotConstructed
    /\ calls' = <<>>
    /\ UNCHANGED <<caller_rules, translation_rules>>
    /\ UNCHANGED <<concatVars, concurrentVars, processorVars,
                 treeVars, pipelineVars>>

Next ==
    \/ \E rules \in Registries : Construct(rules)
    \/ \E exp \in SourceExprs : TranslateExpression(exp)
    \/ \E exp \in DirectExprs : TranslateColumn(exp)
    \/ \E exp \in DirectExprs : TranslateLiteral(exp)
    \/ \E exp \in DirectExprs : TranslateFunctionCall(exp)
    \/ \E exp \in DirectExprs : TranslateCurriedFunctionCall(exp)
    \/ \E exp \in DirectExprs : TranslateSubscriptableReference(exp)
    \/ \E exp \in DirectExprs : TranslateLambda(exp)
    \/ \E exp \in DirectExprs : TranslateArgument(exp)
    \/ Discard

Spec == Init /\ [][Next]_vars

(***************************************************************************)
(* Composition of registries: three caller registries are concatenated     *)
(* both ways, and a translator is built from regA.concat(regB).            *)
(***************************************************************************)
InitConcat ==
    /\ InitTranslator
    /\ regA \in ConcatRegistries
    /\ regB \in ConcatRegistries
    /\ regC \in ConcatRegistries
    /\ regAB = NotConstructed /\ regBC = NotConstructed
    /\ regAB_C = NotConstructed /\ regA_BC = NotConstructed
    /\ step = "start"
    /\ ConcurrentOff /\ UUIDOff /\ EnforcerOff /\ TreeOff /\ PipelineOff

\* regA.concat(regB)
ConcatAB ==
    /\ step = "start"
    /\ regAB' = concat(regA, regB)
    /\ step' = "ab"
    /\ UNCHANGED <<regA, regB, regC, regBC, regAB_C, regA_BC>>
    /\ UNCHANGED <<translatorVars, concurrentVars, processorVars,
                 treeVars, pipelineVars>>

\* (regA.concat(regB)).concat(regC)
ConcatLeft ==
    /\ step = "ab"
    /\ regAB_C' = concat(regAB, regC)
    /\ step' = "left"
    /\ UNCHANGED <<regA, regB, regC, regAB, regBC, regA_BC>>
    /\ UNCHANGED <<translatorVars, concurrentVars, processorVars,
                 treeVars, pipelineVars>>

\* regB.concat(regC)
ConcatBC ==
    /\ step = "left"
    /\ regBC' = concat(regB, regC)
    /\ step' = "bc"
    /\ UNCHANGED <<regA, regB, regC, regAB, regAB_C, regA_BC>>
    /\ UNCHANGED <<translatorVars, concurrentVars, processorVars,
                 treeVars, pipelineVars>>

\* regA.concat(regB.concat(regC))
ConcatRight ==
    /\ step = "bc"
    /\ regA_BC' = concat(regA, regBC)
    /\ step' = "right"
    /\ UNCHANGED <<regA, regB, regC, regAB, regBC, regAB_C>>
    /\ UNCHANGED <<translatorVars, concurrentVars, processorVars,
                 treeVars, pipelineVars>>

\* SnubaClickhouseRulesTranslator(regA.concat(regB))
ConstructComposed ==
    /\ step = "right"
    /\ ~Constructed
    /\ caller_rules' = regAB
    /\ translation_rules' = init_rules(regAB)
    /\ step' = "built"
    /\ UNCHANGED <<entry, source, result, calls>>
    /\ UNCHANGED <<concurrentVars, processorVars,
                 treeVars, pipelineVars>>
    /\ UNCHANGED <<regA, regB, regC, regAB, regBC, regAB_C, regA_BC>>

\* translate_expression on the composed translator
TranslateComposed(exp) ==
    /\ step = "built"
    /\ Idle
    /\ Called("translate_expression", exp,
              translate_expression(translation_rules, exp, Start(exp)))
    /\ UNCHANGED <<concatVars, concurrentVars, processorVars,
                 treeVars, pipelineVars>>

NextConcat ==
    \/ ConcatAB
    \/ ConcatLeft
    \/ ConcatBC
    \/ ConcatRight
    \/ ConstructComposed
    \/ \E exp \in ComposedExprs : TranslateComposed(exp)

SpecConcat == InitConcat /\ [][NextConcat]_vars

(***************************************************************************)
(* Properties                                                              *)
(***************************************************************************)
\* The list a public method consults.
EntryList(name) ==
    CASE name = "translate_column" -> "columns"
      [] name = "translate_literal" -> "literals"
      [] name = "translate_function_call" -> "functions"
      [] name = "translate_curried_function_call" -> "curried_functions"
      [] name = "translate_subscriptable_reference" -> "subscriptables"
      [] name = "translate_lambda" -> "lambdas"
      [] name = "translate_argument" -> "arguments"
      [] OTHER -> "none"

\* A call was made and the node it was given has the kind the method is for.
WellTypedCall ==
    /\ entry # "none"
    /\ entry = "translate_expression" \/ EntryList(entry) = ListOf(source.kind)

\* The positions of the log where rule idx of `list` was invoked with `node`.
RuleEvents(node, list, idx) ==
    {k \in DOMAIN calls : /\ calls[k].ev = "rule"
                          /\ calls[k].node = node
                          /\ calls[k].list = list
                          /\ calls[k].idx = idx}

Dispatches == {k \in DOMAIN calls : calls[k].ev = "dispatch"}
Invocations == {k \in DOMAIN calls : calls[k].ev = "rule"}

\* In dispatch d every rule of the list was invoked and returned None.
AllRulesDeclined(d) ==
    \A i \in 1..Len(translation_rules[calls[d].list]) :
        \E k \in RuleEvents(calls[d].node, calls[d].list, i) : IsNone(calls[k].ret)

\* C1 (as claimed): a translator built from any caller registry returns a
\* result for every well-formed tree, and never fails for want of a rule.
C1_Totality ==
    WellTypedCall => IsNode(result) /\ result # Raised("ValueError")

\* The part of C1 the appended defaults do give: a node handed to the list
\* of its own kind always finds a rule, so "Cannot map expression" is never
\* raised there.
C1_NeverUnresolved ==
    WellTypedCall =>
        /\ result # Raised("ValueError")
        /\ \A d \in Dispatches : ~AllRulesDeclined(d)

\* C2: a dispatch walks its list in order, returns what the first rule that
\* does not return None returned, invokes no rule after it, and has invoked
\* each rule before it exactly once, each returning None.
C2_FirstMatchWins ==
    \A d \in Dispatches :
        IsNode(calls[d].ret) =>
            \E i \in 1..Len(translation_rules[calls[d].list]) :
                LET at(j) == RuleEvents(calls[d].node, calls[d].list, j)
                IN  /\ Cardinality(at(i)) = 1
                    /\ \A k \in at(i) : calls[k].ret = calls[d].ret /\ k < d
                    /\ \A j \in 1..(i - 1) :
                          /\ Cardinality(at(j)) = 1
                          /\ \A k \in at(j) :
                                /\ IsNone(calls[k].ret)
                                /\ \A k2 \in at(j + 1) : k < k2
                    /\ \A j \in (i + 1)..Len(translation_rules[calls[d].list]) :
                          at(j) = {}

\* C2's case: the second of at least three rules matched.
C2_Witness ==
    \E k \in Invocations :
        /\ calls[k].idx = 2
        /\ IsNode(calls[k].ret)
        /\ Len(translation_rules[calls[k].list]) >= 3

\* The first rule of `rules` (a list of `list`) that maps exp, 0 if none.
FirstApplicable(rules, exp) ==
    LET hits == {i \in DOMAIN rules :
                    IsNode(attempt_map(rules[i], exp, translation_rules, Start(exp)).ret)}
    IN  IF hits = {} THEN 0 ELSE CHOOSE i \in hits : \A j \in hits : i <= j

\* C3: each list of A.concat(B) is A's rules in order, then B's in order;
\* if a rule of A applies to the translated node the result is that rule's,
\* whatever B holds; and a default rule is invoked only after every rule the
\* caller supplied for the list has declined.
C3_CompositionOrder ==
    /\ regAB # NotConstructed =>
          \A l \in Lists :
              /\ Len(regAB[l]) = Len(regA[l]) + Len(regB[l])
              /\ \A i \in DOMAIN regA[l] : regAB[l][i] = regA[l][i]
              /\ \A i \in DOMAIN regB[l] : regAB[l][Len(regA[l]) + i] = regB[l][i]
    /\ (step = "built" /\ entry = "translate_expression") =>
          LET l == ListOf(source.kind)
              a == FirstApplicable(regA[l], source)
          IN  /\ a > 0 =>
                    /\ IsNode(result)
                    /\ Strip(result) =
                          Strip(attempt_map(regA[l][a], source, translation_rules,
                                            Start(source)).ret)
              /\ \A k \in Invocations :
                    IsDefault(calls[k].rule) =>
                        \A i \in DOMAIN caller_rules[calls[k].list] :
                            \E k2 \in RuleEvents(calls[k].node, calls[k].list, i) :
                                k2 < k /\ IsNone(calls[k2].ret)

\* C3's case: a rule of A and a rule of B both map the translated column,
\* to different columns, and the translation is done.
C3_Witness ==
    /\ step = "built" /\ entry = "translate_expression"
    /\ source.kind = "Column"
    /\ FirstApplicable(regA.columns, source) > 0
    /\ FirstApplicable(regB.columns, source) > 0
    /\ regA.columns[1] # regB.columns[1]
    /\ IsNode(result)

\* C4: concat is associative ...
C4_Associative ==
    step \in {"right", "built"} => \A l \in Lists : regAB_C[l] = regA_BC[l]

\* ... and builds a new registry, its operands staying as they were.
C4_OperandsUnchanged ==
    [][/\ regA' = regA /\ regB' = regB /\ regC' = regC
       /\ regAB # NotConstructed => regAB' = regAB
       /\ regBC # NotConstructed => regBC' = regBC]_vars

\* C4: (A.concat(B)).concat(C) and A.concat(B.concat(C)) hold the same
\* rule lists, and concat leaves its operands unchanged.
C4_ConcatAssociative == []C4_Associative /\ C4_OperandsUnchanged

\* C4's case: both sides are computed from three operands that all hold
\* column rules.
C4_Witness ==
    /\ step = "right"
    /\ Len(regA.columns) > 0 /\ Len(regB.columns) > 0 /\ Len(regC.columns) > 0
    /\ regA # regB /\ regB # regC

\* A translator whose caller registry is empty: only the defaults.
OnlyDefaults == Constructed /\ caller_rules = TranslationRules

\* C5: through the default rules alone the output is structurally equal to
\* the input: same kinds, aliases, names, values, parameters in order.
C5_DefaultIdentity ==
    (OnlyDefaults /\ entry = "translate_expression") =>
        IsNode(result) /\ Strip(result) = Strip(source)

\* C5's case: a curried call holding a subscript was translated by defaults.
C5_Witness ==
    /\ OnlyDefaults /\ entry = "translate_expression"
    /\ source.kind = "CurriedFunctionCall"
    /\ \E i \in DOMAIN Iter(source) : Iter(source)[i].kind = "SubscriptableReference"
    /\ IsNode(result)

\* C6: through the default rules alone no output node is the object of the
\* corresponding input node; indeed the two trees share no object at all.
C6_FreshCopies ==
    (OnlyDefaults /\ entry = "translate_expression" /\ IsNode(result)) =>
        /\ Len(Iter(result)) = Len(Iter(source))
        /\ \A i \in DOMAIN Iter(source) : Iter(result)[i].id # Iter(source)[i].id
        /\ NodeIds(result) \cap NodeIds(source) = {}

\* C6's case: a tree with leaves of all three leaf kinds below composites.
C6_Witness ==
    /\ OnlyDefaults /\ entry = "translate_expression" /\ IsNode(result)
    /\ Len(Iter(source)) >= 5
    /\ \E i \in DOMAIN Iter(source) : Iter(source)[i].kind = "Column"
    /\ \E i \in DOMAIN Iter(source) : Iter(source)[i].kind = "Literal"

\* C7 (as claimed): a translation never returns a CurriedFunctionCall whose
\* inner function is not a FunctionCall; it raises instead.
C7_CurriedInvariant ==
    (entry = "translate_expression" /\ IsNode(result)) =>
        \A i \in DOMAIN Iter(result) :
            Iter(result)[i].kind = "CurriedFunctionCall" =>
                Iter(result)[i].internal_function.kind = "FunctionCall"

\* C8 (as claimed): no rule raises, whatever node of its kind it is given
\* and whatever the registry does to the node's children.
C8_RulesNeverRaise ==
    WellTypedCall => \A k \in Invocations : ~IsRaise(calls[k].ret)

C10_TypeCorrectDispatch ==
    entry = "translate_expression" =>
        \A k \in Invocations : calls[k].list = ListOf(calls[k].nodeKind)

\* C10's case: a curried call over a subscript went through the default
\* rules: its inner function, the subscript's column and key were dispatched.
C10_Witness ==
    /\ entry = "translate_expression"
    /\ source.kind = "CurriedFunctionCall"
    /\ IsNode(result)
    /\ \E k \in Invocations :
          calls[k].rule.type = "DefaultSubscriptableMapper" /\ IsNode(calls[k].ret)
    /\ \E k \in Invocations :
          calls[k].list = "functions" /\ calls[k].node = source.internal_function.id
    /\ \E k \in Invocations : calls[k].list = "literals"

\* The node of the translated tree that has the identity id.
SourceNode(id) ==
    Bind(Iter(source), LAMBDA nodes :
        nodes[CHOOSE i \in DOMAIN nodes : nodes[i].id = id])

\* C11: whenever a default rule maps a node, at any depth of the tree, the
\* node it returns carries the alias of the node it was given, None
\* included; an alias can only differ after a rule of the caller.
C11_AliasPreserved ==
    entry # "none" =>
        /\ \A k \in Invocations :
              (IsDefault(calls[k].rule) /\ IsNode(calls[k].ret)) =>
                  calls[k].ret.alias = SourceNode(calls[k].node).alias
        /\ \A d \in Dispatches :
              (IsNode(calls[d].ret)
                  /\ calls[d].ret.alias # SourceNode(calls[d].node).alias) =>
                  \E k \in Invocations :
                      /\ k < d
                      /\ calls[k].node = calls[d].node
                      /\ calls[k].ret = calls[d].ret
                      /\ ~IsDefault(calls[k].rule)

\* C11's case: below the root, default rules mapped a subscript that has an
\* alias and a node whose alias is None.
C11_Witness ==
    /\ entry = "translate_expression" /\ IsNode(result)
    /\ \E k \in Invocations :
          /\ calls[k].rule.type = "DefaultSubscriptableMapper"
          /\ IsNode(calls[k].ret)
          /\ calls[k].node # source.id
          /\ SourceNode(calls[k].node).alias = "tags[release]"
    /\ \E k \in Invocations :
          /\ IsDefault(calls[k].rule)
          /\ IsNode(calls[k].ret)
          /\ calls[k].node # source.id
          /\ SourceNode(calls[k].node).alias = NoAlias

\* What a call produced, identities aside.
Outcome(r) == IF IsNode(r) THEN Strip(r) ELSE r

\* The subtree n built on its own, as the root of a tree.
Alone(n) == Label(n, 1).exp

\* C12: the translation of a subtree depends on the subtree and the
\* registry only: what a dispatch inside a tree returns is what the same
\* dispatch returns for the subtree alone, so equal subtrees under different
\* parents or at different depths translate to equal outputs.
C12_NoAncestorContext ==
    entry = "translate_expression" =>
        /\ \A d \in Dispatches :
              \E alone \in {Alone(SourceNode(calls[d].node))} :
                  Outcome(calls[d].ret) =
                      Outcome(map_expression(translation_rules, alone,
                                             calls[d].list, Start(alone)).ret)
        /\ \E subtree \in {[d \in Dispatches |-> Strip(SourceNode(calls[d].node))]},
              out \in {[d \in Dispatches |-> Outcome(calls[d].ret)]} :
              \A d1, d2 \in Dispatches :
                  (calls[d1].list = calls[d2].list /\ subtree[d1] = subtree[d2])
                      => out[d1] = out[d2]

\* C12's case: the same column occurs as a parameter of the inner function
\* and as a parameter of the curried call around it, and both were mapped.
C12_Witness ==
    /\ entry = "translate_expression" /\ IsNode(result)
    /\ source.kind = "CurriedFunctionCall"
    /\ \E d1, d2 \in Dispatches :
          /\ calls[d1].node # calls[d2].node
          /\ calls[d1].list = "columns" /\ calls[d2].list = "columns"
          /\ Strip(SourceNode(calls[d1].node)) = Strip(SourceNode(calls[d2].node))
          /\ IsNode(calls[d1].ret) /\ IsNode(calls[d2].ret)

(***************************************************************************)
(* Concurrent translation: two threads call translate_expression on one    *)
(* shared tree through one shared translator.  The tree, the registry and  *)
(* the heap are shared; a step of a thread is the creation of one object,  *)
(* which takes the next free identity of the heap.                         *)
(***************************************************************************)
Threads == {"t1", "t2"}

\* The caller rules of the shared translator.
ConcurrentPool ==
    ConcatPool \cup {<<"subscriptables", Rule("TagMapper", "tags", "tags")>>}

ConcurrentRegistries == RegistriesUpTo(ConcurrentPool, MaxSharedRules)

\* The shared source trees.
ConcurrentExprs ==
    {Label(e, 1).exp :
        e \in {c_col, s_tags,
               FunctionCall(0, NoAlias, "f", <<c_col>>),
               FunctionCall(0, "alias", "g", <<s_tags, l_123>>),
               CurriedFunctionCall(0, NoAlias,
                                   FunctionCall(0, NoAlias, "f", <<c_col>>),
                                   <<c_cola>>)}}

\* translate_expression(source) as one thread executes it on its own.
SoloRun == translate_expression(translation_rules, source, Start(source))

\* The number of objects that run creates.
Needed(run) == run.st.next - Len(Iter(source)) - 1

\* The tree a thread holds: the k-th object it created has the identity the
\* heap gave it, ids[k]; the objects of the source (identities up to n)
\* are the shared ones.
RECURSIVE Relabel(_, _, _)
Relabel(e, n, ids) ==
    LET own == IF e.id > n THEN ids[e.id - n] ELSE e.id
    IN  CASE e.kind = "FunctionCall" ->
                [e EXCEPT !.id = own,
                          !.parameters = [i \in DOMAIN e.parameters |->
                                             Relabel(e.parameters[i], n, ids)]]
          [] e.kind = "CurriedFunctionCall" ->
                [e EXCEPT !.id = own,
                          !.internal_function = Relabel(e.internal_function, n, ids),
                          !.parameters = [i \in DOMAIN e.parameters |->
                                             Relabel(e.parameters[i], n, ids)]]
          [] e.kind = "SubscriptableReference" ->
                [e EXCEPT !.id = own, !.column = Relabel(e.column, n, ids),
                          !.key = Relabel(e.key, n, ids)]
          [] e.kind = "Lambda" ->
                [e EXCEPT !.id = own,
                          !.transformation = Relabel(e.transformation, n, ids)]
          [] OTHER -> [e EXCEPT !.id = own]

InitConcurrent ==
    /\ caller_rules \in ConcurrentRegistries
    /\ translation_rules = init_rules(caller_rules)
    /\ source \in ConcurrentExprs
    /\ entry = "none"
    /\ result = NotConstructed
    /\ calls = <<>>
    /\ heap_next = Len(Iter(source)) + 1
    /\ workers = [t \in Threads |->
                    [state |-> "idle", ids |-> <<>>, ret |-> NotConstructed]]
    /\ ConcatOff /\ UUIDOff /\ EnforcerOff /\ TreeOff /\ PipelineOff

\* Thread t calls translator.translate_expression(source).
Begin(t) ==
    /\ workers[t].state = "idle"
    /\ workers' = [workers EXCEPT ![t].state = "running"]
    /\ UNCHANGED <<translatorVars, concatVars, heap_next, processorVars,
                 treeVars, pipelineVars>>

\* Thread t reaches the next deepcopy / replace / constructor of its run.
Allocate(t) ==
    /\ workers[t].state = "running"
    /\ \E run \in {SoloRun} : Len(workers[t].ids) < Needed(run)
    /\ workers' = [workers EXCEPT ![t].ids = Append(@, heap_next)]
    /\ heap_next' = heap_next + 1
    /\ UNCHANGED <<translatorVars, concatVars, processorVars,
                 treeVars, pipelineVars>>

\* The call of thread t returns (or raises).
Return(t) ==
    /\ workers[t].state = "running"
    /\ \E run \in {SoloRun} :
          /\ Len(workers[t].ids) = Needed(run)
          /\ workers' = [workers EXCEPT
                            ![t].state = "done",
                            ![t].ret = IF IsNode(run.ret)
                                       THEN Relabel(run.ret, Len(Iter(source)),
                                                    workers[t].ids)
                                       ELSE run.ret]
    /\ UNCHANGED <<translatorVars, concatVars, heap_next, processorVars,
                 treeVars, pipelineVars>>

NextConcurrent ==
    \/ \E t \in Threads : Begin(t)
    \/ \E t \in Threads : Allocate(t)
    \/ \E t \in Threads : Return(t)

SpecConcurrent == InitConcurrent /\ [][NextConcurrent]_vars

\* Each finished translation returned what a solo run returns, and its tree
\* shares no object with the source or with the other thread's tree.
C13_Outputs ==
    \A t \in DOMAIN workers :
        workers[t].state = "done" =>
            /\ Outcome(workers[t].ret) = Outcome(SoloRun.ret)
            /\ IsNode(workers[t].ret) =>
                  /\ NodeIds(workers[t].ret) \cap NodeIds(source) = {}
                  /\ \A u \in DOMAIN workers \ {t} :
                        (workers[u].state = "done" /\ IsNode(workers[u].ret)) =>
                            NodeIds(workers[t].ret) \cap NodeIds(workers[u].ret) = {}

\* No step of either translation writes the source tree or the registry.
C13_SharedUnchanged ==
    [][workers # <<>> =>
          /\ source' = source
          /\ translation_rules' = translation_rules
          /\ caller_rules' = caller_rules]_vars

MaxTuple == 2        \* members of the tuple of an IN condition

PyStr(chars) == [t |-> "str", chars |-> chars]
PyInt(n) == [t |-> "int", n |-> n]
PyNone == [t |-> "none"]

\* The character c repeated n times.
Rep(c, n) == [i \in 1..n |-> c]

Digits == <<"0", "1", "2", "3", "4", "5", "6", "7", "8", "9">>

RECURSIVE str_int(_)
\* str(n) of a non negative int
str_int(n) ==
    IF n < 10 THEN <<Digits[n + 1]>> ELSE str_int(n \div 10) \o <<Digits[(n % 10) + 1]>>

\* str(value)
str(value) ==
    CASE value.t = "str" -> value.chars
      [] value.t = "int" -> str_int(value.n)
      [] value.t = "none" -> <<"N", "o", "n", "e">>

HexDigits == {"0", "1", "2", "3", "4", "5", "6", "7", "8", "9",
              "a", "b", "c", "d", "e", "f", "A", "B", "C", "D", "E", "F"}

\* The digit '%x' prints for a hex digit.
lower(c) ==
    CASE c = "A" -> "a" [] c = "B" -> "b" [] c = "C" -> "c"
      [] c = "D" -> "d" [] c = "E" -> "e" [] c = "F" -> "f" [] OTHER -> c

RECURSIVE replace_all(_, _)
\* s.replace(old, '')
replace_all(s, old) ==
    IF Len(s) < Len(old) THEN s
    ELSE IF SubSeq(s, 1, Len(old)) = old
         THEN replace_all(SubSeq(s, Len(old) + 1, Len(s)), old)
         ELSE <<Head(s)>> \o replace_all(Tail(s), old)

RECURSIVE lstrip(_, _)
lstrip(s, chars) ==
    IF Len(s) > 0 /\ Head(s) \in chars THEN lstrip(Tail(s), chars) ELSE s

RECURSIVE rstrip(_, _)
rstrip(s, chars) ==
    IF Len(s) > 0 /\ s[Len(s)] \in chars
    THEN rstrip(SubSeq(s, 1, Len(s) - 1), chars) ELSE s

\* s.strip(chars)
strip(s, chars) == rstrip(lstrip(s, chars), chars)

\* uuid.UUID(hex): the 32 hex digits of the UUID, or the ValueError raised
\* for a string that is not 32 hex digits once 'urn:', 'uuid:', the outer
\* braces and the dashes are removed.  (The strings of the model hold no
\* sign, blank, underscore or 0x prefix, which int(hex, 16) would accept.)
UUID(hex_in) ==
    LET hex == replace_all(strip(replace_all(replace_all(hex_in,
                        <<"u", "r", "n", ":">>), <<"u", "u", "i", "d", ":">>),
                        {"{", "}"}), <<"-">>)
    IN  IF Len(hex) # 32 THEN Raised("ValueError")
        ELSE IF \E i \in 1..32 : hex[i] \notin HexDigits THEN Raised("ValueError")
        ELSE [kind |-> "UUID", hex |-> [i \in 1..32 |-> lower(hex[i])]]

\* str(uuid): '%032x' of the value as 8-4-4-4-12.
str_uuid(u) ==
    SubSeq(u.hex, 1, 8) \o <<"-">> \o SubSeq(u.hex, 9, 12) \o <<"-">>
        \o SubSeq(u.hex, 13, 16) \o <<"-">> \o SubSeq(u.hex, 17, 20) \o <<"-">>
        \o SubSeq(u.hex, 21, 32)

\* A variant of parse_uuid that stores the parsed value's plain hex digits.
parse_uuid_hex(lit) ==
    IF lit.kind # "Literal" THEN lit
    ELSE LET parsed == UUID(str(lit.value))
         IN  IF IsRaise(parsed) THEN lit
             ELSE Literal(0, lit.alias, PyStr(parsed.hex))

\* UUIDColumnProcessor.parse_uuid
parse_uuid(lit) ==
    IF lit.kind # "Literal" THEN lit
    ELSE LET parsed == UUID(str(lit.value))
         IN  IF IsRaise(parsed) THEN lit
             ELSE Literal(0, lit.alias, PyStr(str_uuid(parsed)))

(***************************************************************************)
(* The structural matcher (snuba.query.matchers): shape descriptors and    *)
(* match.  A MatchResult holds the captures as (name, value) pairs.        *)
(***************************************************************************)
NoPattern == [m |-> "None"]             \* None where a pattern may be given
String(value) == [m |-> "String", value |-> value]
AnyOptionalString == [m |-> "AnyOptionalString"]
Or(alternatives) == [m |-> "Or", alternatives |-> alternatives]
Param(name, inner) == [m |-> "Param", name |-> name, inner |-> inner]
ColumnMatch(table_name, column_name) ==
    [m |-> "Column", table_name |-> table_name, column_name |-> column_name]
\* The tuple of parameter shapes of a call shape.
Shapes(items) == [m |-> "Shapes", items |-> items]
FunctionCallMatch(function_name, parameters, with_optionals) ==
    [m |-> "FunctionCall", function_name |-> function_name,
     parameters |-> parameters, with_optionals |-> with_optionals]
LiteralMatch(value) == [m |-> "Literal", value |-> value]

MatchResult(results) == [kind |-> "MatchResult", results |-> results]

\* MatchResult.contains(name)
contains(res, name) == \E c \in res.results : c.name = name

\* MatchResult.expression(name)
expression(res, name) == (CHOOSE c \in res.results : c.name = name).value

RECURSIVE match(_, _)
RECURSIVE match_optional(_, _)
RECURSIVE match_or(_, _, _)
RECURSIVE match_or_last(_, _, _)
RECURSIVE match_parameters(_, _, _)
RECURSIVE match_column(_, _)
RECURSIVE match_function_call(_, _)
RECURSIVE match_literal(_, _)

\* An optional field pattern: None accepts every value.
match_optional(shape, value) ==
    IF shape.m = "None" THEN MatchResult({}) ELSE match(shape, value)

\* A variant of Or that lets a later alternative that matches win over an
\* earlier one.
match_or_last(alternatives, node, i) ==
    IF i > Len(alternatives) THEN NoneValue
    ELSE Bind(match_or_last(alternatives, node, i + 1), LAMBDA later :
            IF IsNone(later) THEN match(alternatives[i], node) ELSE later)

\* Or: the result of the first alternative, in order, that matches.
match_or(alternatives, node, i) ==
    IF i > Len(alternatives) THEN NoneValue
    ELSE Bind(match(alternatives[i], node), LAMBDA r :
            IF IsNone(r) THEN match_or(alternatives, node, i + 1) ELSE r)

\* The parameter shapes against the parameters, position by position.
match_parameters(shapes, parameters, i) ==
    IF i > Len(shapes) THEN MatchResult({})
    ELSE Bind(match(shapes[i], parameters[i]), LAMBDA r :
            IF ~(r.kind = "MatchResult") THEN r
            ELSE Bind(match_parameters(shapes, parameters, i + 1), LAMBDA rest :
                    IF ~(rest.kind = "MatchResult") THEN rest
                    ELSE MatchResult(r.results \cup rest.results)))

\* A variant of the column shape that reads the node's names without
\* looking at the node's variant first.
match_column_unchecked(shape, node) ==
    IF node.kind # "Column" THEN Raised("AttributeError")
    ELSE Bind(match_optional(shape.table_name, node.table_name), LAMBDA t :
            IF ~(t.kind = "MatchResult") THEN t
            ELSE Bind(match_optional(shape.column_name, node.column_name), LAMBDA c :
                    IF ~(c.kind = "MatchResult") THEN c
                    ELSE MatchResult(t.results \cup c.results)))

\* ColumnShape(table, column): a Column whose names satisfy the patterns.
match_column(shape, node) ==
    IF node.kind # "Column" THEN NoneValue
    ELSE Bind(match_optional(shape.table_name, node.table_name), LAMBDA t :
            IF ~(t.kind = "MatchResult") THEN t
            ELSE Bind(match_optional(shape.column_name, node.column_name), LAMBDA c :
                    IF ~(c.kind = "MatchResult") THEN c
                    ELSE MatchResult(t.results \cup c.results)))

\* FunctionCallShape(name, parameter_shapes, with_optionals): a FunctionCall
\* with that name whose parameters satisfy the shapes.  The alias is not
\* consulted.  With with_optionals the shapes describe the leading
\* parameters and the call may have more (replaceAll(toString(col), '-', '')
\* is matched by the shape of replaceAll(toString(col))).
match_function_call(shape, node) ==
    IF node.kind # "FunctionCall" THEN NoneValue
    ELSE Bind(match_optional(shape.function_name, node.function_name), LAMBDA f :
            IF ~(f.kind = "MatchResult") THEN f
            ELSE IF shape.parameters.m = "None" THEN f
            ELSE IF Len(node.parameters) < Len(shape.parameters.items) THEN NoneValue
            ELSE IF ~shape.with_optionals
                    /\ Len(node.parameters) # Len(shape.parameters.items)
                 THEN NoneValue
            ELSE Bind(match_parameters(shape.parameters.items, node.parameters, 1),
                      LAMBDA ps :
                    IF ~(ps.kind = "MatchResult") THEN ps
                    ELSE MatchResult(f.results \cup ps.results)))

\* LiteralShape(value_shape): a Literal whose value satisfies the shape.
match_literal(shape, node) ==
    IF node.kind # "Literal" THEN NoneValue
    ELSE match_optional(shape.value, node.value)

\* Pattern.match(node)
match(shape, node) ==
    CASE shape.m = "String" ->
            IF node = shape.value THEN MatchResult({}) ELSE NoneValue
      [] shape.m = "AnyOptionalString" ->
            IF node.t \in {"none", "str"} THEN MatchResult({}) ELSE NoneValue
      [] shape.m = "Or" -> match_or(shape.alternatives, node, 1)
      [] shape.m = "Param" ->
            Bind(match(shape.inner, node), LAMBDA r :
                IF ~(r.kind = "MatchResult") THEN r
                ELSE MatchResult(r.results
                                   \cup {[name |-> shape.name, value |-> node]}))
      [] shape.m = "Column" -> match_column(shape, node)
      [] shape.m = "FunctionCall" -> match_function_call(shape, node)
      [] shape.m = "Literal" -> match_literal(shape, node)

(***************************************************************************)
(* The patterns of UUIDColumnProcessor and process_condition.  `self` is   *)
(* the processor: the set of column names it was constructed with.         *)
(***************************************************************************)
\* ConditionFunctions.IN, ConditionFunctions.NOT_IN
ConditionFunctions_IN == "in"
ConditionFunctions_NOT_IN == "notIn"

\* The function names that are keys of FUNCTION_TO_OPERATOR.
FUNCTION_TO_OPERATOR ==
    <<"equals", "notEquals", "greater", "less", "like", "in", "notIn">>

\* The elements of a set in some order (iteration over a Python set).
RECURSIVE SeqOf(_)
SeqOf(S) ==
    IF S = {} THEN <<>>
    ELSE Bind(CHOOSE x \in S : TRUE, LAMBDA x : <<x>> \o SeqOf(S \ {x}))

\* [f(x) for x in xs]
StringsOf(xs) == [i \in DOMAIN xs |-> String(xs[i])]

\* self.__uuid_column_match
uuid_column_match(self) == Or(StringsOf(SeqOf(self)))

\* UUIDColumnProcessor.formatted_uuid_pattern(suffix)
formatted_uuid_pattern(self, suffix) ==
    FunctionCallMatch(
        String("replaceAll"),
        Shapes(<<FunctionCallMatch(
                     String("toString"),
                     Shapes(<<Param("formatted_uuid_column" \o suffix,
                                    ColumnMatch(NoPattern, uuid_column_match(self)))>>),
                     FALSE)>>),
        TRUE)

\* self.uuid_in_condition
uuid_in_condition(self) ==
    FunctionCallMatch(
        Or(<<String(ConditionFunctions_IN), String(ConditionFunctions_NOT_IN)>>),
        Shapes(<<formatted_uuid_pattern(self, ""),
                 Param("params", FunctionCallMatch(String("tuple"), NoPattern, FALSE))>>),
        FALSE)

\* self.uuid_condition
uuid_condition(self) ==
    FunctionCallMatch(
        Or(StringsOf(SelectSeq(FUNCTION_TO_OPERATOR,
                               LAMBDA op : op \notin {ConditionFunctions_IN,
                                                        ConditionFunctions_NOT_IN}))),
        Shapes(<<Or(<<Param("literal_0", LiteralMatch(AnyOptionalString)),
                      formatted_uuid_pattern(self, "_0")>>),
                 Or(<<Param("literal_1", LiteralMatch(AnyOptionalString)),
                      formatted_uuid_pattern(self, "_1")>>)>>),
        FALSE)

\* snuba.query.conditions.binary_condition(alias, function_name, lhs, rhs)
binary_condition(alias, function_name, lhs, rhs) ==
    FunctionCall(0, alias, function_name, <<lhs, rhs>>)

\* A variant of the loop over the tuple members that converts the literals
\* it finds and passes every other member through.
rewrite_members_lenient(parameters) ==
    [kind |-> "Tuple", items |-> [i \in DOMAIN parameters |-> parse_uuid(parameters[i])]]

\* The loop of process_condition over params_fn.parameters: the converted
\* members, or None when a member is not a Literal (return exp).
rewrite_members(parameters) ==
    IF \E i \in DOMAIN parameters : parameters[i].kind # "Literal" THEN NoneValue
    ELSE [kind |-> "Tuple", items |-> [i \in DOMAIN parameters |-> parse_uuid(parameters[i])]]

\* The branch of process_condition taken when uuid_in_condition matched.
process_in_condition(exp, res) ==
    LET column == expression(res, "formatted_uuid_column")
        params_fn == expression(res, "params")
    IN  IF column.kind # "Column" THEN Raised("AssertionError")
        ELSE IF params_fn.kind # "FunctionCall" THEN Raised("AssertionError")
        ELSE Bind(rewrite_members(params_fn.parameters), LAMBDA new_fn_params :
                IF IsNone(new_fn_params) THEN exp
                ELSE binary_condition(
                        exp.alias, exp.function_name,
                        Column(0, NoAlias, column.column_name, column.table_name),
                        FunctionCall(0, params_fn.alias, params_fn.function_name,
                                     new_fn_params.items)))

\* The loop of process_condition over the suffixes "_0", "_1": the list
\* new_params it builds.
RECURSIVE new_params_for(_, _)
new_params_for(res, suffixes) ==
    IF Len(suffixes) = 0 THEN [kind |-> "List", items |-> <<>>]
    ELSE LET suffix == Head(suffixes)
             here ==
                IF contains(res, "literal" \o suffix)
                THEN [kind |-> "List",
                      items |-> <<parse_uuid(expression(res, "literal" \o suffix))>>]
                ELSE IF contains(res, "formatted_uuid_column" \o suffix)
                THEN IF expression(res, "formatted_uuid_column" \o suffix).kind
                            # "Column"
                     THEN Raised("AssertionError")
                     ELSE [kind |-> "List",
                           items |-> <<expression(res,
                                                  "formatted_uuid_column" \o suffix)>>]
                ELSE [kind |-> "List", items |-> <<>>]
         IN  IF IsRaise(here) THEN here
             ELSE Bind(new_params_for(res, Tail(suffixes)), LAMBDA rest :
                     IF IsRaise(rest) THEN rest
                     ELSE [kind |-> "List", items |-> here.items \o rest.items])

\* The branch of process_condition taken when uuid_condition matched.
process_binary_condition(exp, res) ==
    Bind(new_params_for(res, <<"_0", "_1">>), LAMBDA new_params :
        IF IsRaise(new_params) THEN new_params
        ELSE IF Len(new_params.items) # 2 THEN Raised("ValueError")
        ELSE binary_condition(exp.alias, exp.function_name,
                              new_params.items[1], new_params.items[2]))

\* UUIDColumnProcessor.process_condition
process_condition(self, exp) ==
    IF exp.kind # "FunctionCall" THEN exp
    ELSE Bind(match(uuid_in_condition(self), exp), LAMBDA res_in :
            IF IsRaise(res_in) THEN res_in
            ELSE IF ~IsNone(res_in) THEN process_in_condition(exp, res_in)
            ELSE Bind(match(uuid_condition(self), exp), LAMBDA res :
                    IF IsRaise(res) THEN res
                    ELSE IF ~IsNone(res) THEN process_binary_condition(exp, res)
                    ELSE exp))

(***************************************************************************)
(* Inputs of the UUID processor                                            *)
(***************************************************************************)
\* 32 hex digits, some in upper case, no dashes
uuid_plain == Rep("a", 8) \o Rep("B", 4) \o Rep("0", 4) \o Rep("c", 4) \o Rep("9", 12)
\* a UUID already in its canonical form
uuid_canonical ==
    Rep("1", 8) \o <<"-">> \o Rep("2", 4) \o <<"-">> \o Rep("3", 4) \o <<"-">>
        \o Rep("e", 4) \o <<"-">> \o Rep("f", 12)
\* 32 characters that are not all hex digits, and a short string
uuid_malformed == Rep("a", 31) \o <<"g">>
not_uuid == <<"a", "b", "c", "d">>

lit_uuid == Literal(0, NoAlias, PyStr(uuid_plain))
lit_canonical == Literal(0, "u", PyStr(uuid_canonical))
lit_malformed == Literal(0, NoAlias, PyStr(uuid_malformed))
lit_short == Literal(0, "s", PyStr(not_uuid))
lit_int == Literal(0, NoAlias, PyInt(123))
fn_lower == FunctionCall(0, NoAlias, "toLower", <<lit_uuid>>)

\* replaceAll(toString(column))
wrapped(column) ==
    FunctionCall(0, NoAlias, "replaceAll",
                 <<FunctionCall(0, NoAlias, "toString", <<column>>)>>)

\* replaceAll(toString(column), '-', '')
wrapped_dashes(column) ==
    FunctionCall(0, NoAlias, "replaceAll",
                 <<FunctionCall(0, NoAlias, "toString", <<column>>),
                   Literal(0, NoAlias, PyStr(<<"-">>)),
                   Literal(0, NoAlias, PyStr(<<>>))>>)

col_event_id == Column(0, NoAlias, "event_id", NoAlias)
col_event_id_t == Column(0, "ev", "event_id", "events")
col_trace_id == Column(0, NoAlias, "trace_id", NoAlias)
col_message == Column(0, NoAlias, "message", NoAlias)

\* The sets of column names a processor is constructed with.
UUIDConfigs == {{"event_id"}, {"event_id", "trace_id"}, {}}

\* What stands left of IN / NOT IN.
InLeftSides ==
    {wrapped(col_event_id), wrapped(col_event_id_t), wrapped_dashes(col_event_id),
     wrapped(col_trace_id), wrapped(col_message), col_event_id}

TupleMembers == {lit_uuid, lit_canonical, lit_malformed, fn_lower}

RECURSIVE TuplesUpTo(_)
TuplesUpTo(n) ==
    IF n = 0 THEN {<<>>}
    ELSE LET shorter == TuplesUpTo(n - 1)
         IN  shorter \cup {Append(t, m) : t \in shorter, m \in TupleMembers}

\* What stands right of IN / NOT IN.
InRightSides ==
    {FunctionCall(0, NoAlias, "tuple", t) : t \in TuplesUpTo(MaxTuple)}
    \cup {FunctionCall(0, NoAlias, "array", <<lit_uuid>>), lit_uuid}

InConditions ==
    {FunctionCall(0, alias, op, <<l, r>>) :
        alias \in {NoAlias, "cond"},
        op \in {ConditionFunctions_IN, ConditionFunctions_NOT_IN},
        l \in InLeftSides, r \in InRightSides}

\* The operands of the binary comparisons.
ComparisonSides ==
    {wrapped(col_event_id), wrapped(col_event_id_t), wrapped_dashes(col_event_id),
     wrapped(col_message), col_event_id,
     lit_uuid, lit_canonical, lit_short, lit_int}

ComparisonConditions ==
    {FunctionCall(0, alias, op, <<l, r>>) :
        alias \in {NoAlias, "cond"}, op \in {"equals", "like"},
        l \in ComparisonSides, r \in ComparisonSides}

\* Expressions that are not conditions of two operands.
OtherExpressions ==
    {col_event_id, lit_uuid,
     FunctionCall(0, NoAlias, "isNull", <<wrapped(col_event_id)>>),
     FunctionCall(0, NoAlias, "equals", <<wrapped(col_event_id), lit_uuid, lit_uuid>>),
     FunctionCall(0, NoAlias, "f", <<wrapped(col_event_id), lit_uuid>>)}

\* The expressions process_condition is called with.
Conditions == InConditions \cup ComparisonConditions \cup OtherExpressions

\* The expressions match is called with: the conditions without an alias
\* and their parts.
MatchExpressions ==
    UNION {{Iter(c)[i] : i \in DOMAIN Iter(c)} :
              c \in {d \in Conditions :
                        d.alias = NoAlias
                        /\ (d.kind = "FunctionCall" =>
                               d.function_name \notin {ConditionFunctions_NOT_IN, "like"})}}

\* The patterns match is called on.
PatternNames ==
    {"uuid_in_condition", "uuid_condition", "formatted_uuid_pattern",
     "column", "table_column", "literal", "param_literal", "or_column_literal",
     "or_literal_twice"}

PatternOf(self, name) ==
    CASE name = "uuid_in_condition" -> uuid_in_condition(self)
      [] name = "uuid_condition" -> uuid_condition(self)
      [] name = "formatted_uuid_pattern" -> formatted_uuid_pattern(self, "")
      [] name = "column" -> ColumnMatch(NoPattern, uuid_column_match(self))
      [] name = "table_column" -> ColumnMatch(String("events"), String("event_id"))
      [] name = "literal" -> LiteralMatch(AnyOptionalString)
      [] name = "param_literal" -> Param("literal", LiteralMatch(AnyOptionalString))
      [] name = "or_column_literal" ->
            Or(<<Param("column", ColumnMatch(NoPattern, uuid_column_match(self))),
                 Param("literal", LiteralMatch(AnyOptionalString))>>)
      [] name = "or_literal_twice" ->
            Or(<<Param("first", LiteralMatch(AnyOptionalString)),
                 Param("second", LiteralMatch(NoPattern))>>)

(***************************************************************************)
(* The UUID processor: one constructed processor, match and                *)
(* process_condition called on it.                                         *)
(***************************************************************************)
\* No call is recorded: the caller may make one.
UUIDIdle == condition = NotConstructed

InitUUID ==
    /\ InitTranslator
    /\ ConcatOff /\ ConcurrentOff /\ EnforcerOff /\ TreeOff /\ PipelineOff
    /\ uuid_columns \in UUIDConfigs
    /\ condition = NotConstructed
    /\ pattern = "none"
    /\ match_result = NotConstructed
    /\ processed = NotConstructed

\* <pattern>.match(exp)
Match(name, exp) ==
    /\ UUIDIdle
    /\ pattern' = name
    /\ condition' = exp
    /\ match_result' = match(PatternOf(uuid_columns, name), exp)
    /\ UNCHANGED <<uuid_columns, processed>>
    /\ UNCHANGED <<translatorVars, concatVars, concurrentVars, enforcerVars,
                 treeVars, pipelineVars>>

\* processor.process_condition(exp)
ProcessCondition(exp) ==
    /\ UUIDIdle
    /\ pattern' = "process_condition"
    /\ condition' = exp
    /\ processed' = process_condition(uuid_columns, exp)
    /\ UNCHANGED <<uuid_columns, match_result>>
    /\ UNCHANGED <<translatorVars, concatVars, concurrentVars, enforcerVars,
                 treeVars, pipelineVars>>

\* The caller is done with what the call returned.
ForgetCondition ==
    /\ ~UUIDIdle
    /\ pattern' = "none"
    /\ condition' = NotConstructed
    /\ match_result' = NotConstructed
    /\ processed' = NotConstructed
    /\ UNCHANGED uuid_columns
    /\ UNCHANGED <<translatorVars, concatVars, concurrentVars, enforcerVars,
                 treeVars, pipelineVars>>

NextUUID ==
    \/ \E name \in PatternNames, exp \in MatchExpressions : Match(name, exp)
    \/ \E exp \in Conditions : ProcessCondition(exp)
    \/ ForgetCondition

SpecUUID == InitUUID /\ [][NextUUID]_vars

(***************************************************************************)
(* Properties of the matcher and of the UUID processor                     *)
(***************************************************************************)
MatchCalled == pattern \notin {"none", "process_condition"}
ProcessConditionCalled == pattern = "process_condition"

\* The Expression variant a pattern describes, "" for an Or of several.
VariantOf(name) ==
    CASE name \in {"uuid_in_condition", "uuid_condition", "formatted_uuid_pattern"} ->
            "FunctionCall"
      [] name \in {"column", "table_column"} -> "Column"
      [] name \in {"literal", "param_literal"} -> "Literal"
      [] OTHER -> ""

\* C14: match returns None or a MatchResult and never raises; a pattern for
\* one Expression variant offered a node of another variant returns None;
\* and no match made by process_condition raises.
C14_MatcherNoThrow ==
    /\ MatchCalled =>
          /\ match_result.kind \in {"None", "MatchResult"}
          /\ (VariantOf(pattern) # "" /\ condition.kind # VariantOf(pattern)) =>
                IsNone(match_result)
    /\ ProcessConditionCalled => ~IsRaise(processed)

\* C14's case: the column shape was offered a function call and said None.
C14_Witness ==
    /\ pattern = "column"
    /\ condition.kind = "FunctionCall"
    /\ IsNone(match_result)

\* e is replaceAll(toString(c), ...) for a column c the processor is
\* configured with.
IsWrappedColumn(e) ==
    /\ e.kind = "FunctionCall" /\ e.function_name = "replaceAll"
    /\ Len(e.parameters) >= 1
    /\ e.parameters[1].kind = "FunctionCall"
    /\ e.parameters[1].function_name = "toString"
    /\ Len(e.parameters[1].parameters) = 1
    /\ e.parameters[1].parameters[1].kind = "Column"
    /\ e.parameters[1].parameters[1].column_name \in uuid_columns

WrappedColumnOf(e) == e.parameters[1].parameters[1]

\* The alternatives of the Or pattern that was matched, and those of them
\* that match the node on their own.
AlternativesOf(name) == PatternOf(uuid_columns, name).alternatives

Hits(name) ==
    {i \in DOMAIN AlternativesOf(name) :
        match(AlternativesOf(name)[i], condition).kind = "MatchResult"}

\* e is an operand uuid_condition accepts: a literal holding a string or
\* None, or a wrapped column the processor is configured with.
IsComparisonSide(e) ==
    \/ e.kind = "Literal" /\ e.value.t \in {"none", "str"}
    \/ IsWrappedColumn(e)

\* condition is a comparison of two such operands.
IsUUIDComparison ==
    /\ condition.kind = "FunctionCall"
    /\ condition.function_name \in {"equals", "notEquals", "greater", "less", "like"}
    /\ Len(condition.parameters) = 2
    /\ \A i \in 1..2 : IsComparisonSide(condition.parameters[i])

\* The MatchResult holds operand i of the comparison under exactly one of
\* its two names: the literal itself, or the column inside the wrapping.
CapturedOnce(res, i, literal_name, column_name) ==
    IF condition.parameters[i].kind = "Literal"
    THEN /\ contains(res, literal_name) /\ ~contains(res, column_name)
         /\ expression(res, literal_name) = condition.parameters[i]
    ELSE /\ contains(res, column_name) /\ ~contains(res, literal_name)
         /\ expression(res, column_name) = WrappedColumnOf(condition.parameters[i])

\* C27: Or matches iff an alternative matches and returns the result of the
\* first that does; Param records its node under its name only when its
\* inner pattern matched; after a successful match of uuid_condition exactly
\* one of literal_i and formatted_uuid_column_i is contained for each
\* operand i; and a failed match is None, never a partial MatchResult.
C27_MatcherCaptures ==
    /\ pattern \in {"or_column_literal", "or_literal_twice"} =>
          IF Hits(pattern) = {} THEN IsNone(match_result)
          ELSE match_result =
                  match(AlternativesOf(pattern)[
                            CHOOSE i \in Hits(pattern) : \A j \in Hits(pattern) : i <= j],
                        condition)
    /\ pattern = "param_literal" =>
          IF match(LiteralMatch(AnyOptionalString), condition).kind = "MatchResult"
          THEN match_result = MatchResult({[name |-> "literal", value |-> condition]})
          ELSE IsNone(match_result)
    /\ pattern = "uuid_condition" =>
          IF IsUUIDComparison
          THEN /\ match_result.kind = "MatchResult"
               /\ CapturedOnce(match_result, 1, "literal_0", "formatted_uuid_column_0")
               /\ CapturedOnce(match_result, 2, "literal_1", "formatted_uuid_column_1")
          ELSE IsNone(match_result)

\* C27's case: uuid_condition matched a wrapped column compared with a
\* literal, and holds the column and the literal under one name each.
C27_Witness ==
    /\ pattern = "uuid_condition"
    /\ IsUUIDComparison
    /\ condition.parameters[1].kind = "FunctionCall"
    /\ condition.parameters[2].kind = "Literal"
    /\ match_result.kind = "MatchResult"
    /\ contains(match_result, "formatted_uuid_column_0")
    /\ ~contains(match_result, "literal_0")
    /\ contains(match_result, "literal_1")
    /\ ~contains(match_result, "formatted_uuid_column_1")

\* condition is <wrapped column> IN / NOT IN tuple(...)
IsInCondition ==
    /\ condition.kind = "FunctionCall"
    /\ condition.function_name \in {"in", "notIn"}
    /\ Len(condition.parameters) = 2
    /\ IsWrappedColumn(condition.parameters[1])
    /\ condition.parameters[2].kind = "FunctionCall"
    /\ condition.parameters[2].function_name = "tuple"

TupleOf(c) == c.parameters[2].parameters

\* C15: an IN / NOT IN condition on a wrapped uuid column whose tuple has a
\* member that is not a Literal is returned as it was given.
C15_InAllOrNothing ==
    (/\ ProcessConditionCalled
     /\ IsInCondition
     /\ \E i \in DOMAIN TupleOf(condition) : TupleOf(condition)[i].kind # "Literal") =>
        processed = condition

\* C15's case: the tuple holds a UUID literal first and a function call
\* last, and the condition came back unchanged.
C15_Witness ==
    /\ ProcessConditionCalled
    /\ IsInCondition
    /\ Len(TupleOf(condition)) = 2
    /\ TupleOf(condition)[1] = lit_uuid
    /\ TupleOf(condition)[2].kind = "FunctionCall"
    /\ processed = condition

\* chars is hex in the canonical form: 8-4-4-4-12 lower case digits.
IsCanonicalFormOf(chars, hex) ==
    /\ Len(chars) = 36
    /\ \A i \in {9, 14, 19, 24} : chars[i] = "-"
    /\ SelectSeq(chars, LAMBDA c : c # "-") = hex
    /\ \A i \in 1..32 : hex[i] \in HexDigits /\ lower(hex[i]) = hex[i]

\* The literal `out` is what the rewrite makes of the literal `in`.
LiteralRewritten(in, out) ==
    IF IsRaise(UUID(str(in.value))) THEN out = in
    ELSE /\ out.kind = "Literal"
         /\ out.alias = in.alias
         /\ out.value.t = "str"
         /\ IsCanonicalFormOf(out.value.chars, UUID(str(in.value)).hex)

\* The operand `out` is what the rewrite makes of the operand `in`.
OperandRewritten(in, out) ==
    IF in.kind = "Literal" THEN LiteralRewritten(in, out)
    ELSE IF IsWrappedColumn(in)
    THEN /\ out.kind = "Column"
         /\ out.column_name = WrappedColumnOf(in).column_name
         /\ out.table_name = WrappedColumnOf(in).table_name
    ELSE /\ out.kind = "FunctionCall"
         /\ out.function_name = in.function_name
         /\ out.alias = in.alias
         /\ Len(out.parameters) = Len(in.parameters)
         /\ \A i \in DOMAIN in.parameters :
               LiteralRewritten(in.parameters[i], out.parameters[i])

\* One of the two patterns of the processor matched the condition, and an
\* IN tuple holds literals only.
ConditionMatched ==
    /\ condition.kind = "FunctionCall"
    /\ \/ /\ ~IsNone(match(uuid_in_condition(uuid_columns), condition))
          /\ \A i \in DOMAIN TupleOf(condition) : TupleOf(condition)[i].kind = "Literal"
       \/ /\ IsNone(match(uuid_in_condition(uuid_columns), condition))
          /\ ~IsNone(match(uuid_condition(uuid_columns), condition))

\* C16: in a matched condition every literal that parses as a UUID becomes
\* a literal with the canonical dashed form and the same alias, every other
\* literal stays as it is in its position, the wrapped column becomes the
\* bare column, and the operator, the alias of the condition, the number
\* and the order of the operands and tuple members stay.
C16_UUIDLiteralRewrite ==
    (ProcessConditionCalled /\ ConditionMatched) =>
        /\ processed.kind = "FunctionCall"
        /\ processed.function_name = condition.function_name
        /\ processed.alias = condition.alias
        /\ Len(processed.parameters) = 2
        /\ \A i \in 1..2 :
              OperandRewritten(condition.parameters[i], processed.parameters[i])

\* C16's case: NOT IN over a tuple of a UUID in upper case without dashes
\* and a malformed string, under an aliased condition.
C16_Witness ==
    /\ ProcessConditionCalled
    /\ IsInCondition
    /\ condition.function_name = "notIn"
    /\ condition.alias = "cond"
    /\ TupleOf(condition) = <<lit_uuid, lit_malformed>>
    /\ processed.parameters[1].kind = "Column"
    /\ TupleOf(processed)[2] = lit_malformed

\* A column the processor is configured with occurs in e.
InvolvesUUIDColumn(e) ==
    \E i \in DOMAIN Iter(e) :
        Iter(e)[i].kind = "Column" /\ Iter(e)[i].column_name \in uuid_columns

\* C17 (as claimed): a comparison other than IN / NOT IN that involves no
\* configured UUID column is returned unchanged.
C17_BinaryComparisonShape ==
    (/\ ProcessConditionCalled
     /\ condition.kind = "FunctionCall"
     /\ condition.function_name \notin {"in", "notIn"}
     /\ ~InvolvesUUIDColumn(condition)) =>
        processed = condition

(***************************************************************************)
(* The Query container, as far as the consistency enforcer uses it         *)
(***************************************************************************)
MaxGroups == 3          \* group ids the replacement state can name
MaxCeiling == 2         \* largest max_group_ids_exclude setting

GroupIds == 1..MaxGroups

\* A value a collaborator returned (as opposed to Raised(exc)).
Returns(value) == [kind |-> "Return", value |-> value]

\* Query: the FINAL flag, the legacy condition list and the conjuncts of the
\* AST condition.
Query(final, conditions, ast_condition) ==
    [kind |-> "Query", final |-> final, conditions |-> conditions,
     ast_condition |-> ast_condition]

get_final(q) == q.final
set_final(q, final) == [q EXCEPT !.final = final]
get_conditions(q) == q.conditions
add_conditions(q, conditions) == [q EXCEPT !.conditions = @ \o conditions]
add_condition_to_ast(q, cond) == [q EXCEPT !.ast_condition = Append(@, cond)]

\* A legacy condition [lhs, op, rhs] and a nested list of alternatives.
LegacyCondition(lhs, op, rhs) ==
    [t |-> "condition", lhs |-> lhs, op |-> op, rhs |-> rhs]
LegacyOr(alternatives) == [t |-> "or", alternatives |-> alternatives]

\* snuba.util.is_condition
is_condition(c) == c.t = "condition"

\* ["assumeNotNull", ["group_id"]]
assumeNotNull_group_id == <<"assumeNotNull", "group_id">>

\* snuba.query.conditions.in_condition / not_in_condition
in_condition(alias, lhs, rhs) ==
    binary_condition(alias, ConditionFunctions_IN, lhs,
                     FunctionCall(0, NoAlias, "tuple", rhs))
not_in_condition(alias, lhs, rhs) ==
    binary_condition(alias, ConditionFunctions_NOT_IN, lhs,
                     FunctionCall(0, NoAlias, "tuple", rhs))

\* metrics.increment(name, tags) and logger.warning(message)
Metric(name, tags) == [kind |-> "metric", name |-> name, tags |-> tags]
Warning(message) == [kind |-> "warning", name |-> message, tags |-> <<>>]

\* str(bool)
str_bool(b) == IF b THEN "True" ELSE "False"

(***************************************************************************)
(* PostReplacementConsistencyEnforcer.process_query                        *)
(***************************************************************************)
\* What a call leaves behind: the query as mutated, how the call ended
\* ("returned" or the name of the exception) and what it emitted.
Ended(q, how, emits) == [query |-> q, outcome |-> how, emitted |-> emits]

\* A variant of the ceiling test that already gives up at the ceiling.
exceeds_ceiling_inclusive(exclude_group_ids, max_group_ids_exclude) ==
    Len(exclude_group_ids) >= max_group_ids_exclude

\* len(exclude_group_ids) > max_group_ids_exclude
exceeds_ceiling(exclude_group_ids, max_group_ids_exclude) ==
    Len(exclude_group_ids) > max_group_ids_exclude

\* The exclusion condition in its AST form.
group_exclusion(exclude_group_ids) ==
    not_in_condition(
        NoAlias,
        FunctionCall(0, NoAlias, "assumeNotNull",
                     <<Column(0, NoAlias, "group_id", NoAlias)>>),
        [i \in DOMAIN exclude_group_ids |->
            Literal(0, NoAlias, PyInt(exclude_group_ids[i]))])

\* The decision: set_final, condition_to_add and the query, to which the
\* exclusion in its AST form is added on the way.
Decision(set_final_, condition_to_add, q) ==
    [set_final |-> set_final_, condition_to_add |-> condition_to_add,
     query |-> q]

\* A variant of the decision that adds the exclusion whenever the list of
\* groups fits under the ceiling, whether the oracle asked for FINAL or not.
decide_exclusion_with_final(q, cfg, project_ids, flags) ==
    IF project_ids = {} THEN Decision(FALSE, NoneValue, q)
    ELSE IF flags.exclude_group_ids # <<>>
            /\ ~exceeds_ceiling(flags.exclude_group_ids, cfg.max_group_ids_exclude)
         THEN Decision(flags.final,
                       LegacyCondition(assumeNotNull_group_id, "NOT IN",
                                       flags.exclude_group_ids),
                       add_condition_to_ast(
                           q, group_exclusion(flags.exclude_group_ids)))
    ELSE Decision(flags.final \/ flags.exclude_group_ids # <<>>, NoneValue, q)

decide(q, cfg, project_ids, flags) ==
    IF project_ids = {} THEN Decision(FALSE, NoneValue, q)
    ELSE IF ~flags.final /\ flags.exclude_group_ids # <<>> THEN
        IF exceeds_ceiling(flags.exclude_group_ids, cfg.max_group_ids_exclude)
        THEN Decision(TRUE, NoneValue, q)
        ELSE Decision(FALSE,
                      LegacyCondition(assumeNotNull_group_id, "NOT IN",
                                      flags.exclude_group_ids),
                      add_condition_to_ast(
                          q, group_exclusion(flags.exclude_group_ids)))
    ELSE Decision(flags.final, NoneValue, q)

\* if activated: the decision is applied to the query.
apply_decision(d) ==
    Bind(set_final(d.query, d.set_final), LAMBDA q :
        Ended(IF d.condition_to_add # NoneValue
              THEN add_conditions(q, <<d.condition_to_add>>)
              ELSE q,
              "returned", {}))

\* The NOT IN lists of the group conditions the query already has.
existing_groups_conditions(q) ==
    Bind(SelectSeq(get_conditions(q),
                   LAMBDA c : /\ is_condition(c)
                              /\ c.lhs = assumeNotNull_group_id
                              /\ c.op = "NOT IN"),
         LAMBDA cs : [i \in DOMAIN cs |-> cs[i].rhs])

\* A variant of the comparison that looks only at whether there is a list
\* on each side, not at the lists.
group_id_mismatch_presence(condition_to_add, existing) ==
    (condition_to_add = NoneValue) # (Len(existing) = 0)

\* condition_to_add[2] or None differs from the first existing list or None
group_id_mismatch(condition_to_add, existing) ==
    IF condition_to_add = NoneValue THEN Len(existing) > 0
    ELSE Len(existing) = 0 \/ condition_to_add.rhs # existing[1]

\* else: the decision is compared with what the query already carries.
compare_decision(d) ==
    Bind(existing_groups_conditions(d.query), LAMBDA existing :
        Bind(IF d.set_final # get_final(d.query)
             THEN {Metric("mismatch.final", <<>>)} ELSE {},
             LAMBDA final_metrics :
        IF Len(existing) > 1 THEN
            Ended(d.query, "returned",
                  final_metrics \cup
                  {Metric("mismatch.multiple_group_condition", <<>>),
                   Warning("Multiple group exclusion conditions in the Query")})
        ELSE IF group_id_mismatch(d.condition_to_add, existing) THEN
            Ended(d.query, "returned",
                  final_metrics \cup
                  {Metric("mismatch.group_id",
                          <<str_bool(Len(existing) > 0),
                            str_bool(d.condition_to_add # NoneValue)>>),
                   Warning("Discrepancy between project_extension and replacement consistency processor")})
        ELSE IF final_metrics # {} THEN
            Ended(d.query, "returned",
                  final_metrics \cup
                  {Warning("Discrepancy between project_extension and replacement consistency processor")})
        ELSE Ended(d.query, "returned", {Metric("match", <<>>)})))

\* process_query(query, request_settings) under the configuration cfg, with
\* env telling how the two lookups of this call answer.
process_query(q, settings, cfg, env) ==
    IF settings.turbo THEN Ended(q, "returned", {})
    ELSE IF IsRaise(env.project_ids) THEN
        IF cfg.activated THEN Ended(q, env.project_ids.exc, {})
        ELSE Ended(q, "returned",
                   {Warning("Failed to find project ids in the Query")})
    ELSE IF env.project_ids.value # {} /\ IsRaise(env.flags) THEN
        Ended(q, env.flags.exc, {})
    ELSE
        Bind(decide(q, cfg, env.project_ids.value,
                    IF IsRaise(env.flags) THEN NoneValue ELSE env.flags.value),
             LAMBDA d : IF cfg.activated THEN apply_decision(d)
                        ELSE compare_decision(d))

(***************************************************************************)
(* Inputs of the consistency enforcer                                      *)
(***************************************************************************)
RECURSIVE sorted(_)
\* sorted(ids) as a list
sorted(ids) ==
    IF ids = {} THEN <<>>
    ELSE Bind(CHOOSE m \in ids : \A n \in ids : m <= n,
              LAMBDA m : <<m>> \o sorted(ids \ {m}))

\* get_config(CONSISTENCY_ENFORCER_PROCESSOR_ENABLED) and
\* get_config("max_group_ids_exclude")
Configs ==
    {[kind |-> "Config", activated |-> a, max_group_ids_exclude |-> m] :
        a \in BOOLEAN, m \in 1..MaxCeiling}

RequestSettings == {[kind |-> "RequestSettings", turbo |-> t] : t \in BOOLEAN}

project_condition == LegacyCondition(<<"project_id">>, "IN", <<1>>)
group_condition(ids) == LegacyCondition(assumeNotNull_group_id, "NOT IN", ids)

LegacyConditionLists ==
    {<<>>,
     <<project_condition>>,
     <<project_condition, group_condition(<<1>>)>>,
     <<group_condition(<<1>>), group_condition(<<1, 2>>)>>,
     <<LegacyOr(<<group_condition(<<1>>), project_condition>>),
       group_condition(<<2>>)>>}

AstConditions ==
    {<<>>,
     <<in_condition(NoAlias, Column(0, NoAlias, "project_id", NoAlias),
                    <<Literal(0, NoAlias, PyInt(1))>>)>>}

Queries ==
    {Query(final, conditions, ast_condition) :
        final \in BOOLEAN, conditions \in LegacyConditionLists,
        ast_condition \in AstConditions}

\* get_project_ids_in_query: it fails, or finds no or one project id.
ProjectIdLookups == {Raised("ValueError"), Returns({}), Returns({1})}

\* get_projects_query_flags: it fails, or answers (final, exclude_group_ids).
FlagLookups ==
    {Raised("ConnectionError")} \cup
    {Returns([final |-> final, exclude_group_ids |-> sorted(ids)]) :
        final \in BOOLEAN, ids \in SUBSET GroupIds}

Lookups ==
    {[kind |-> "Lookups", project_ids |-> p, flags |-> f] :
        p \in ProjectIdLookups, f \in FlagLookups}

(***************************************************************************)
(* The consistency enforcer: state machine                                 *)
(***************************************************************************)
EnforcerIdle == outcome = "none"

InitEnforcer ==
    /\ InitTranslator
    /\ ConcatOff /\ ConcurrentOff /\ UUIDOff /\ TreeOff /\ PipelineOff
    /\ config \in Configs
    /\ query = NotConstructed
    /\ query_before = NotConstructed
    /\ request_settings = NotConstructed
    /\ replacer = NotConstructed
    /\ outcome = "none"
    /\ emitted = {}

\* processor.process_query(q, settings)
ProcessQuery(q, settings, env) ==
    /\ EnforcerIdle
    /\ query_before' = q
    /\ request_settings' = settings
    /\ replacer' = env
    /\ \E r \in {process_query(q, settings, config, env)} :
          /\ query' = r.query
          /\ outcome' = r.outcome
          /\ emitted' = r.emitted
    /\ UNCHANGED config
    /\ UNCHANGED <<translatorVars, concatVars, concurrentVars, uuidVars,
                 treeVars, pipelineVars>>

\* The caller is done with the query.
ForgetQuery ==
    /\ ~EnforcerIdle
    /\ query' = NotConstructed
    /\ query_before' = NotConstructed
    /\ request_settings' = NotConstructed
    /\ replacer' = NotConstructed
    /\ outcome' = "none"
    /\ emitted' = {}
    /\ UNCHANGED config
    /\ UNCHANGED <<translatorVars, concatVars, concurrentVars, uuidVars,
                 treeVars, pipelineVars>>

NextEnforcer ==
    \/ \E q \in Queries, settings \in RequestSettings, env \in Lookups :
          ProcessQuery(q, settings, env)
    \/ ForgetQuery

SpecEnforcer == InitEnforcer /\ [][NextEnforcer]_vars

(***************************************************************************)
(* Properties of the consistency enforcer                                  *)
(***************************************************************************)
ProcessQueryCalled == outcome # "none"

\* The call got past the turbo test and found project ids.
ProjectIdsFound ==
    /\ ProcessQueryCalled
    /\ ~request_settings.turbo
    /\ ~IsRaise(replacer.project_ids)
    /\ replacer.project_ids.value # {}

\* The oracle answered final = false with a non-empty list of groups.
OracleExcludes ==
    /\ ProjectIdsFound
    /\ ~IsRaise(replacer.flags)
    /\ ~replacer.flags.value.final
    /\ replacer.flags.value.exclude_group_ids # <<>>

ExcludedGroups == replacer.flags.value.exclude_group_ids

\* cond is assumeNotNull(group_id) NOT IN tuple(ids), ids in this order.
IsGroupExclusionOf(cond, ids) ==
    /\ cond.kind = "FunctionCall"
    /\ cond.function_name = "notIn"
    /\ Len(cond.parameters) = 2
    /\ cond.parameters[1].kind = "FunctionCall"
    /\ cond.parameters[1].function_name = "assumeNotNull"
    /\ cond.parameters[1].parameters =
           <<Column(0, NoAlias, "group_id", NoAlias)>>
    /\ cond.parameters[2].kind = "FunctionCall"
    /\ cond.parameters[2].function_name = "tuple"
    /\ Len(cond.parameters[2].parameters) = Len(ids)
    /\ \A i \in DOMAIN ids :
          /\ cond.parameters[2].parameters[i].kind = "Literal"
          /\ cond.parameters[2].parameters[i].value = PyInt(ids[i])

\* C18: in active mode, for a non-turbo query with project ids and an oracle
\* answer final = false with a non-empty list E of excluded groups: if
\* |E| > max_group_ids_exclude the query gets FINAL = true and no condition
\* is added; otherwise FINAL is false and exactly one group_id NOT IN
\* condition listing exactly E is added (to the AST condition and to the
\* legacy conditions).
C18_EnforcerBound ==
    (OracleExcludes /\ config.activated) =>
        /\ outcome = "returned"
        /\ IF Len(ExcludedGroups) > config.max_group_ids_exclude
           THEN /\ query.final = TRUE
                /\ query.conditions = query_before.conditions
                /\ query.ast_condition = query_before.ast_condition
           ELSE /\ query.final = FALSE
                /\ Len(query.ast_condition) =
                       Len(query_before.ast_condition) + 1
                /\ SubSeq(query.ast_condition, 1,
                          Len(query_before.ast_condition)) =
                       query_before.ast_condition
                /\ IsGroupExclusionOf(
                       query.ast_condition[Len(query.ast_condition)],
                       ExcludedGroups)
                /\ query.conditions =
                       Append(query_before.conditions,
                              group_condition(ExcludedGroups))

\* C18's cases: three excluded groups against a ceiling of two on a query
\* that was not FINAL, and two excluded groups against a ceiling of two on a
\* query that was FINAL.
C18_Witness ==
    /\ OracleExcludes /\ config.activated
    /\ config.max_group_ids_exclude = 2
    /\ \/ /\ Len(ExcludedGroups) = 3
          /\ ~query_before.final /\ query.final
       \/ /\ Len(ExcludedGroups) = 2
          /\ query_before.final /\ ~query.final
          /\ Len(query.ast_condition) = 2

\* C19 (as claimed): when the processor is not activated, process_query
\* leaves the FINAL flag, the legacy conditions and the AST condition as they
\* were, whatever the oracle answers.
C19_ShadowNoMutation ==
    (ProcessQueryCalled /\ ~config.activated) => query = query_before

\* A lookup of the call failed.
LookupFailed ==
    /\ ProcessQueryCalled
    /\ ~request_settings.turbo
    /\ \/ IsRaise(replacer.project_ids)
       \/ ProjectIdsFound /\ IsRaise(replacer.flags)

\* C20 (as claimed): when a lookup fails, shadow mode logs and returns with
\* the query as it was, active mode lets the failure reach the caller, and
\* the query is unchanged in both.
C20_LookupFailure ==
    LookupFailed =>
        /\ query = query_before
        /\ IF config.activated
           THEN outcome \notin {"none", "returned"}
           ELSE /\ outcome = "returned"
                /\ \E e \in emitted : e.kind = "warning"

\* The call got as far as deciding: no turbo, and no lookup failed.
Decided ==
    /\ ProcessQueryCalled
    /\ ~request_settings.turbo
    /\ ~LookupFailed

\* FINAL as the oracle's answer and the ceiling ask for it.
ComputedFinal ==
    /\ ProjectIdsFound
    /\ \/ replacer.flags.value.final
       \/ Len(ExcludedGroups) > config.max_group_ids_exclude

\* The oracle's answer and the ceiling ask for an exclusion of ExcludedGroups.
ComputedExclusion ==
    /\ OracleExcludes
    /\ Len(ExcludedGroups) <= config.max_group_ids_exclude

\* The NOT IN lists of the group conditions the query came with.
ExistingExclusions == existing_groups_conditions(query_before)

\* The computed exclusion list equals the existing one; both absent counts
\* as equal.
SameExclusion ==
    IF ComputedExclusion
    THEN Len(ExistingExclusions) = 1 /\ ExistingExclusions[1] = ExcludedGroups
    ELSE Len(ExistingExclusions) = 0

MatchEmitted == Metric("match", <<>>) \in emitted

MismatchEmitted ==
    \E e \in emitted :
        /\ e.kind = "metric"
        /\ e.name \in {"mismatch.final", "mismatch.multiple_group_condition",
                        "mismatch.group_id"}

\* C28: in shadow mode with at most one group exclusion condition on the
\* query, 'match' is emitted iff the computed FINAL equals the query's FINAL
\* flag and the computed exclusion list equals the query's NOT IN list (both
\* absent counts as equal); otherwise a mismatch metric is emitted; and
\* 'match' and a mismatch metric are never emitted by the same call.
C28_ShadowComparison ==
    /\ (Decided /\ ~config.activated /\ Len(ExistingExclusions) <= 1) =>
          /\ MatchEmitted <=> (ComputedFinal = query_before.final /\ SameExclusion)
          /\ ~MatchEmitted => MismatchEmitted
    /\ ProcessQueryCalled => ~(MatchEmitted /\ MismatchEmitted)

\* C28's case: the query came with a NOT IN list, the oracle's answer gives
\* the same list, FINAL agrees, and the call emitted 'match'.
C28_Witness ==
    /\ Decided /\ ~config.activated
    /\ ComputedExclusion
    /\ Len(ExistingExclusions) = 1
    /\ ExistingExclusions[1] = ExcludedGroups
    /\ ~query_before.final
    /\ MatchEmitted

\* The call added a condition to the query, in either form.
ExclusionAdded ==
    \/ query.ast_condition # query_before.ast_condition
    \/ query.conditions # query_before.conditions

\* The call would have gone the same way whatever the oracle had answered.
OracleNotConsulted ==
    \A f \in FlagLookups :
        process_query(query_before, request_settings, config,
                      [replacer EXCEPT !.flags = f])
            = Ended(query, outcome, emitted)

\* C29: no call both decides FINAL = true and adds a group exclusion; when
\* the oracle answers final = true the decision is FINAL = true with no
\* exclusion, whatever groups it lists; and with turbo set or no project id
\* in the query the oracle is not consulted and no exclusion is added.
C29_FinalExcludesExclusion ==
    /\ Decided =>
          /\ ~(ComputedFinal /\ ExclusionAdded)
          /\ config.activated => (query.final = ComputedFinal)
          /\ config.activated => ~(query.final /\ ExclusionAdded)
    /\ (Decided /\ ProjectIdsFound /\ replacer.flags.value.final) =>
          /\ ~ExclusionAdded
          /\ config.activated => query.final
    /\ (/\ ProcessQueryCalled
        /\ \/ request_settings.turbo
           \/ /\ ~IsRaise(replacer.project_ids)
              /\ replacer.project_ids.value = {}) =>
          /\ ~ExclusionAdded
          /\ OracleNotConsulted

\* C29's case: the oracle answered final = true and listed groups that fit
\* under the ceiling; the query got FINAL and no condition.
C29_Witness ==
    /\ Decided /\ config.activated
    /\ ProjectIdsFound
    /\ replacer.flags.value.final
    /\ ExcludedGroups # <<>>
    /\ Len(ExcludedGroups) <= config.max_group_ids_exclude
    /\ ~query_before.final /\ query.final
    /\ ~ExclusionAdded

(***************************************************************************)
(* Conditions (snuba.query.conditions, as tests/query/test_conditions.py   *)
(* builds, iterates and transforms them)                                   *)
(***************************************************************************)
MaxOperands == 2        \* operands of one AND / OR condition

\* AliasedExpression(alias, node): the naming wrapper
AliasedExpression(id, alias, node) ==
    [kind |-> "AliasedExpression", id |-> id, alias |-> alias, node |-> node]

BasicCondition(id, lhs, operator, rhs) ==
    [kind |-> "BasicCondition", id |-> id, lhs |-> lhs,
     operator |-> operator, rhs |-> rhs]

AndCondition(id, sub_conditions) ==
    [kind |-> "AndCondition", id |-> id, sub_conditions |-> sub_conditions]

OrCondition(id, sub_conditions) ==
    [kind |-> "OrCondition", id |-> id, sub_conditions |-> sub_conditions]

IsCondition(c) == c.kind \in {"BasicCondition", "AndCondition", "OrCondition"}

RECURSIVE get_expressions(_)
RECURSIVE get_expressions_seq(_)

\* A variant of the iteration that visits the right hand side of a basic
\* condition before the left hand side.
get_expressions_rhs_first(c) ==
    IF c.kind = "BasicCondition" THEN Iter(c.rhs) \o Iter(c.lhs)
    ELSE get_expressions_seq(c.sub_conditions)

\* Condition.get_expressions(): the expressions of the condition, pre-order;
\* on an expression, the expression's own iteration.
get_expressions(c) ==
    CASE c.kind = "BasicCondition" -> Iter(c.lhs) \o Iter(c.rhs)
      [] c.kind \in {"AndCondition", "OrCondition"} ->
            get_expressions_seq(c.sub_conditions)
      [] OTHER -> Iter(c)

get_expressions_seq(cs) ==
    IF Len(cs) = 0 THEN <<>>
    ELSE get_expressions(Head(cs)) \o get_expressions_seq(Tail(cs))

\* The object the functions of the tests hand out for every match (c3, cX).
cX == Column(99, NoAlias, "cX", "t1")

\* Identities of the objects a transform that returns a new tree creates.
NewId(id) == id + 100

\* The identity of a rebuilt composite node: the node itself when it is
\* changed in place, a new object otherwise.
IdOf(id, in_place) == IF in_place THEN id ELSE NewId(id)

\* The functions handed to transform: replace_col for c1, for c2 and for a
\* column that does not occur, and a function that also marks every function
\* call it is offered with an already replaced parameter.
Funcs == {"c1", "c2", "c9", "mark"}

apply(f, e) ==
    CASE f = "mark" /\ e.kind = "Column" /\ e.column_name = "c1" -> cX
      [] f = "mark" /\ e.kind = "FunctionCall"
                    /\ (\E i \in DOMAIN e.parameters : e.parameters[i] = cX) ->
            [e EXCEPT !.function_name = "marked"]
      [] f # "mark" /\ e.kind = "Column" /\ e.column_name = f -> cX
      [] OTHER -> e

RECURSIVE rewrite(_, _, _)

\* A variant of the rewriting that offers func a node before its children
\* are rewritten.
rewrite_top_down(e, f, in_place) ==
    Bind(apply(f, e), LAMBDA r :
        CASE r.kind = "FunctionCall" ->
                [r EXCEPT !.id = IdOf(r.id, in_place),
                          !.parameters = [i \in DOMAIN r.parameters |->
                                              rewrite(r.parameters[i], f, in_place)]]
          [] r.kind = "AliasedExpression" ->
                [r EXCEPT !.id = IdOf(r.id, in_place), !.node = rewrite(r.node, f, in_place)]
          [] OTHER -> r)

\* transform(func) on an expression: the children are rewritten first, then
\* func is offered the rebuilt node.
rewrite(e, f, in_place) ==
    CASE e.kind = "FunctionCall" ->
            apply(f, [e EXCEPT !.id = IdOf(e.id, in_place),
                               !.parameters = [i \in DOMAIN e.parameters |->
                                                   rewrite(e.parameters[i], f, in_place)]])
      [] e.kind = "AliasedExpression" ->
            apply(f, [e EXCEPT !.id = IdOf(e.id, in_place), !.node = rewrite(e.node, f, in_place)])
      [] OTHER -> apply(f, e)

RECURSIVE rewrite_condition(_, _, _)
\* transform(func) on the expressions of a condition: every expression is
\* rewritten where it stands.
rewrite_condition(c, f, in_place) ==
    CASE c.kind = "BasicCondition" ->
            [c EXCEPT !.id = IdOf(c.id, in_place),
                      !.lhs = rewrite(c.lhs, f, in_place),
                      !.rhs = rewrite(c.rhs, f, in_place)]
      [] c.kind \in {"AndCondition", "OrCondition"} ->
            [c EXCEPT !.id = IdOf(c.id, in_place),
                      !.sub_conditions = [i \in DOMAIN c.sub_conditions |->
                            rewrite_condition(c.sub_conditions[i], f, in_place)]]
      [] OTHER -> rewrite(c, f, in_place)

\* Expression.transform(func): returns the new tree.
transform(e, f) == rewrite_condition(e, f, FALSE)

\* A variant of the container's transform that stops after the first
\* expression: the left hand side of a basic condition, the first operand of
\* an AND / OR.
container_transform_first_only(c, f) ==
    CASE c.kind = "BasicCondition" -> [c EXCEPT !.lhs = rewrite(c.lhs, f, TRUE)]
      [] c.kind \in {"AndCondition", "OrCondition"} ->
            [c EXCEPT !.sub_conditions[1] =
                          rewrite_condition(c.sub_conditions[1], f, TRUE)]
      [] OTHER -> rewrite(c, f, TRUE)

\* condition.get_expressions().transform(func): the condition the caller
\* holds has its expressions replaced; nothing is returned.
container_transform(c, f) == rewrite_condition(c, f, TRUE)

(***************************************************************************)
(* Condition trees the callers build                                       *)
(***************************************************************************)
\* Expressions whose objects take their identities from b on.
ExpressionsAt(b) ==
    {Column(b, NoAlias, "c1", "t1"),
     Column(b, NoAlias, "c2", "t1"),
     FunctionCall(b, NoAlias, "f", <<Column(b + 1, NoAlias, "c1", "t1")>>),
     FunctionCall(b, NoAlias, "f", <<Column(b + 1, NoAlias, "c2", "t1"),
                                     Column(b + 2, NoAlias, "c1", "t1")>>),
     FunctionCall(b, NoAlias, "f",
                  <<FunctionCall(b + 1, NoAlias, "g",
                                 <<Column(b + 2, NoAlias, "c1", "t1")>>),
                    Column(b + 3, NoAlias, "c2", "t1")>>),
     AliasedExpression(b, "a",
                       FunctionCall(b + 1, NoAlias, "f",
                                    <<Column(b + 2, NoAlias, "c1", "t1")>>)),
     AliasedExpression(b, "a", Column(b + 1, NoAlias, "c2", "t1"))}

Operators == {"EQ", "GT"}

BasicConditionsAt(b) ==
    {BasicCondition(b, lhs, operator, rhs) :
        lhs \in ExpressionsAt(b + 1), operator \in Operators,
        rhs \in ExpressionsAt(b + 5)}

\* The basic conditions the nested conditions are made of.
OperandsAt(b) ==
    {BasicCondition(b, Column(b + 1, NoAlias, "c1", "t1"), "EQ",
                    Column(b + 2, NoAlias, "c2", "t1")),
     BasicCondition(b, FunctionCall(b + 1, NoAlias, "f",
                                    <<Column(b + 2, NoAlias, "c1", "t1")>>),
                    "GT", Column(b + 3, NoAlias, "c2", "t1")),
     BasicCondition(b, Column(b + 1, NoAlias, "c2", "t1"), "EQ",
                    AliasedExpression(b + 2, "a",
                                      Column(b + 3, NoAlias, "c3", "t1")))}

\* The lists of length n whose i-th element is taken from sets[i].
RECURSIVE Products(_, _)
Products(sets, n) ==
    IF n = 0 THEN {<<>>}
    ELSE {Append(ops, x) : ops \in Products(sets, n - 1), x \in sets[n]}

\* The lists of 1..MaxOperands operands, the i-th taken from At(b + i * stride)
OperandLists(At(_), b, stride) ==
    Bind([i \in 1..MaxOperands |-> At(b + i * stride)], LAMBDA sets :
        UNION {Products(sets, n) : n \in 1..MaxOperands})

OrConditionsAt(b) ==
    {OrCondition(b, ops) : ops \in OperandLists(OperandsAt, b, 5)}

\* What stands under an AND: the OR of two equalities of the tests, an OR
\* of a single comparison, and a basic condition.
AndOperandsAt(b) ==
    {c \in OrConditionsAt(b) :
        \/ \A i \in DOMAIN c.sub_conditions : c.sub_conditions[i].operator = "EQ"
                                              /\ c.sub_conditions[i].lhs.kind = "Column"
                                              /\ c.sub_conditions[i].rhs.kind = "Column"
        \/ Len(c.sub_conditions) = 1 /\ c.sub_conditions[1].operator = "GT"}
    \cup {c \in OperandsAt(b) : c.operator = "GT"}

AndConditionsAt(b) ==
    {AndCondition(b, ops) : ops \in OperandLists(AndOperandsAt, b, 20)}

ConditionTrees ==
    BasicConditionsAt(1) \cup OrConditionsAt(1) \cup AndConditionsAt(1)

\* The expressions Expression.transform is called on.
ExpressionTrees == ExpressionsAt(1)

(***************************************************************************)
(* Iterating and transforming conditions: state machine                    *)
(***************************************************************************)
TreeIdle == called = "none"

InitTree ==
    /\ InitTranslator
    /\ ConcatOff /\ ConcurrentOff /\ UUIDOff /\ EnforcerOff /\ PipelineOff
    /\ tree \in ConditionTrees \cup ExpressionTrees
    /\ tree_before = tree
    /\ called = "none"
    /\ func = "none"
    /\ visited = <<>>
    /\ revisited = <<>>
    /\ transformed = NotConstructed

\* ret = list(condition.get_expressions()), or list(expression)
GetExpressions ==
    /\ called \in {"none", "transform"}
    /\ visited = <<>>
    /\ visited' = get_expressions(tree)
    /\ called' = IF called = "none" THEN "get_expressions" ELSE called
    /\ UNCHANGED <<tree, tree_before, func, revisited, transformed>>
    /\ UNCHANGED <<translatorVars, concatVars, concurrentVars, processorVars,
                   pipelineVars>>

\* list(condition.get_expressions()) once more
GetExpressionsAgain ==
    /\ called = "get_expressions"
    /\ revisited = <<>>
    /\ revisited' = get_expressions(tree)
    /\ UNCHANGED <<tree, tree_before, called, func, visited, transformed>>
    /\ UNCHANGED <<translatorVars, concatVars, concurrentVars, processorVars,
                   pipelineVars>>

\* condition.get_expressions().transform(f)
ContainerTransform(f) ==
    /\ TreeIdle
    /\ IsCondition(tree)
    /\ called' = "transform"
    /\ func' = f
    /\ tree' = container_transform(tree, f)
    /\ transformed' = NoneValue
    /\ UNCHANGED <<tree_before, visited, revisited>>
    /\ UNCHANGED <<translatorVars, concatVars, concurrentVars, processorVars,
                   pipelineVars>>

\* new = expression.transform(f)
Transform(f) ==
    /\ TreeIdle
    /\ ~IsCondition(tree)
    /\ called' = "expression_transform"
    /\ func' = f
    /\ transformed' = transform(tree, f)
    /\ UNCHANGED <<tree, tree_before, visited, revisited>>
    /\ UNCHANGED <<translatorVars, concatVars, concurrentVars, processorVars,
                   pipelineVars>>

NextTree ==
    \/ GetExpressions
    \/ GetExpressionsAgain
    \/ \E f \in Funcs : ContainerTransform(f)
    \/ \E f \in Funcs : Transform(f)

SpecTree == InitTree /\ [][NextTree]_vars

(***************************************************************************)
(* Properties of iteration and transform                                   *)
(***************************************************************************)
\* The immediate children of a condition or expression, in the order its
\* fields are declared.
Children(n) ==
    CASE n.kind = "BasicCondition" -> <<n.lhs, n.rhs>>
      [] n.kind \in {"AndCondition", "OrCondition"} -> n.sub_conditions
      [] n.kind = "FunctionCall" -> n.parameters
      [] n.kind = "AliasedExpression" -> <<n.node>>
      [] OTHER -> <<>>

RECURSIVE Descendants(_)
\* n and everything below it.
Descendants(n) ==
    {n} \cup UNION {Descendants(Children(n)[i]) : i \in DOMAIN Children(n)}

\* The expressions reachable from n.
ExpressionsOf(n) == {d \in Descendants(n) : ~IsCondition(d)}

\* Where the object with this identity stands in a sequence of nodes.
PositionsIn(seq, id) == {i \in DOMAIN seq : seq[i].id = id}
PositionIn(seq, id) == CHOOSE i \in DOMAIN seq : seq[i].id = id

IterationDone == called = "get_expressions"

\* C21: iterating a condition yields every expression reachable from it
\* exactly once; a parent stands before its children, an AliasedExpression
\* immediately before its inner expression; everything under an earlier
\* child (lhs, an earlier parameter, an earlier AND / OR operand) stands
\* before everything under a later one; a second iteration yields the same
\* sequence.
C21_PreOrderIteration ==
    IterationDone =>
        /\ \A e \in ExpressionsOf(tree) :
              /\ Cardinality(PositionsIn(visited, e.id)) = 1
              /\ visited[PositionIn(visited, e.id)] = e
        /\ Len(visited) = Cardinality(ExpressionsOf(tree))
        /\ \A n \in Descendants(tree) :
              /\ \A i \in DOMAIN Children(n) :
                    \A d \in ExpressionsOf(Children(n)[i]) :
                       /\ ~IsCondition(n) =>
                             PositionIn(visited, n.id) < PositionIn(visited, d.id)
                       /\ \A j \in DOMAIN Children(n) : i < j =>
                             \A later \in ExpressionsOf(Children(n)[j]) :
                                PositionIn(visited, d.id) <
                                    PositionIn(visited, later.id)
              /\ n.kind = "AliasedExpression" =>
                    PositionIn(visited, n.node.id) = PositionIn(visited, n.id) + 1
        /\ revisited # <<>> => revisited = visited

\* C21's case: the aliased basic condition of the tests, a = f(c1) against
\* a = c2, iterated twice: al1, f1, c, al2, c2.
C21_Witness ==
    /\ IterationDone
    /\ tree.kind = "BasicCondition"
    /\ tree.lhs.kind = "AliasedExpression" /\ tree.lhs.node.kind = "FunctionCall"
    /\ Len(tree.lhs.node.parameters) = 1
    /\ tree.rhs.kind = "AliasedExpression" /\ tree.rhs.node.kind = "Column"
    /\ visited = <<tree.lhs, tree.lhs.node, tree.lhs.node.parameters[1],
                   tree.rhs, tree.rhs.node>>
    /\ revisited = visited

TransformDone == called \in {"transform", "expression_transform"}

\* C22 (as claimed): transform never mutates in place; the tree it was
\* called on is unchanged afterwards and iterating it still yields the
\* original nodes.
C22_TransformNoMutation ==
    TransformDone =>
        /\ tree = tree_before
        /\ visited # <<>> => visited = get_expressions(tree_before)

RECURSIVE Skeleton(_)
\* The logical shape of a condition: the AND / OR nesting, the number and
\* order of the operands and the operators, without the expressions.
Skeleton(c) ==
    IF c.kind = "BasicCondition"
    THEN [kind |-> c.kind, operator |-> c.operator, operands |-> <<>>]
    ELSE [kind |-> c.kind, operator |-> "",
          operands |-> [i \in DOMAIN c.sub_conditions |->
                            Skeleton(c.sub_conditions[i])]]

\* func is one of the functions replacing a column by name, and e is a
\* column it replaces.
ReplacesColumns == func \in {"c1", "c2", "c9"}
Matching(e) == e.kind = "Column" /\ e.column_name = func

\* C23: after condition.get_expressions().transform(replace_col) the
\* AND / OR nesting, the operands and the operators are as before; at every
\* iteration position that held a matching column stands the replacement,
\* and at every other position the expression that stood there before (a
\* leaf unchanged, a composite the same object with the same name and alias).
C23_ShapePreserved ==
    (called = "transform" /\ ReplacesColumns) =>
        /\ Skeleton(tree) = Skeleton(tree_before)
        /\ Len(get_expressions(tree)) = Len(get_expressions(tree_before))
        /\ \A i \in DOMAIN get_expressions(tree_before) :
              \E before \in {get_expressions(tree_before)[i]},
                 after \in {get_expressions(tree)[i]} :
                 IF Matching(before) THEN after = cX
                 ELSE /\ after.id = before.id
                      /\ after.kind = before.kind
                      /\ after.alias = before.alias
                      /\ Children(before) = <<>> => after = before
                      /\ before.kind = "FunctionCall" =>
                            /\ after.function_name = before.function_name
                            /\ Len(after.parameters) = Len(before.parameters)
        /\ visited # <<>> => visited = get_expressions(tree)

\* C23's case: (c1 = c2 OR c1 = c2) AND (c1 = c2 OR c1 = c2) of the tests
\* with c2 replaced, iterated afterwards: c1, cX, c3, cX, c5, cX, c7, cX.
C23_Witness ==
    /\ called = "transform" /\ func = "c2"
    /\ tree.kind = "AndCondition" /\ Len(tree.sub_conditions) = 2
    /\ \A i \in 1..2 :
          /\ tree.sub_conditions[i].kind = "OrCondition"
          /\ Len(tree.sub_conditions[i].sub_conditions) = 2
    /\ Len(visited) = 8
    /\ \A i \in 1..8 :
          IF i % 2 = 0 THEN visited[i] = cX
          ELSE /\ visited[i] = get_expressions(tree_before)[i]
               /\ visited[i].column_name = "c1"

(***************************************************************************)
(* UUIDColumnProcessor.process_query and the processors run on one Query   *)
(***************************************************************************)
RECURSIVE combine_and_conditions(_)
\* The conjuncts the Query holds, as one condition: c1 AND (c2 AND ...)
combine_and_conditions(conjuncts) ==
    IF Len(conjuncts) = 1 THEN conjuncts[1]
    ELSE binary_condition(NoAlias, "and", Head(conjuncts),
                          combine_and_conditions(Tail(conjuncts)))

\* Query.get_condition_from_ast(): the condition, None when there is none.
get_condition_from_ast(q) ==
    IF q.ast_condition = <<>> THEN NoneValue
    ELSE combine_and_conditions(q.ast_condition)

\* Query.set_ast_condition(condition): the condition is replaced.
set_ast_condition(q, cond) == [q EXCEPT !.ast_condition = <<cond>>]

RECURSIVE transform_condition(_, _)
\* condition.transform(self.process_condition): the parameters first, then
\* process_condition on the rebuilt node.
transform_condition(self, e) ==
    IF e.kind = "FunctionCall"
    THEN process_condition(
             self,
             [e EXCEPT !.parameters = [i \in DOMAIN e.parameters |->
                                           transform_condition(self, e.parameters[i])]])
    ELSE process_condition(self, e)

\* A call on the Query container, as the log of a process_query keeps it.
ContainerCall(op, arg) == [op |-> op, arg |-> arg]

\* What a process_query of the UUID processor leaves behind.
Processed(q, log) == [query |-> q, log |-> log]

\* A variant of process_query that stores a condition twice: the one it
\* read before the rewriting, and the rewritten one at the end.
uuid_process_query_stepwise(self, q) ==
    Bind(get_condition_from_ast(q), LAMBDA cond :
        IF cond = NoneValue
        THEN Processed(q, <<ContainerCall("get_condition_from_ast", NoneValue)>>)
        ELSE Bind(transform_condition(self, cond), LAMBDA new :
                Processed(set_ast_condition(q, new),
                          <<ContainerCall("get_condition_from_ast", NoneValue),
                            ContainerCall("set_ast_condition", cond),
                            ContainerCall("set_ast_condition", new)>>)))

\* A variant of process_query that leaves a query alone that already reads
\* in FINAL mode.
uuid_process_query_unless_final(self, q) ==
    Bind(get_condition_from_ast(q), LAMBDA cond :
        IF cond = NoneValue \/ get_final(q)
        THEN Processed(q, <<ContainerCall("get_condition_from_ast", NoneValue)>>)
        ELSE Bind(transform_condition(self, cond), LAMBDA new :
                Processed(set_ast_condition(q, new),
                          <<ContainerCall("get_condition_from_ast", NoneValue),
                            ContainerCall("set_ast_condition", new)>>)))

\* A variant of process_query that adds the rewritten condition to the one
\* the query has instead of replacing it.
uuid_process_query_adding(self, q) ==
    Bind(get_condition_from_ast(q), LAMBDA cond :
        IF cond = NoneValue
        THEN Processed(q, <<ContainerCall("get_condition_from_ast", NoneValue)>>)
        ELSE Bind(transform_condition(self, cond), LAMBDA new :
                Processed(add_condition_to_ast(q, new),
                          <<ContainerCall("get_condition_from_ast", NoneValue),
                            ContainerCall("add_condition_to_ast", new)>>)))

\* UUIDColumnProcessor.process_query
uuid_process_query(self, q) ==
    Bind(get_condition_from_ast(q), LAMBDA cond :
        IF cond = NoneValue
        THEN Processed(q, <<ContainerCall("get_condition_from_ast", NoneValue)>>)
        ELSE Bind(transform_condition(self, cond), LAMBDA new :
                Processed(set_ast_condition(q, new),
                          <<ContainerCall("get_condition_from_ast", NoneValue),
                            ContainerCall("set_ast_condition", new)>>)))

(***************************************************************************)
(* Queries on their way through the processors                             *)
(***************************************************************************)
project_in ==
    in_condition(NoAlias, Column(0, NoAlias, "project_id", NoAlias),
                 <<Literal(0, NoAlias, PyInt(1))>>)

\* The conditions of the queries.
PipelineConjuncts ==
    {binary_condition(NoAlias, "equals", wrapped(col_event_id), lit_uuid),
     in_condition("cond", wrapped(col_event_id_t), <<lit_uuid, lit_canonical>>),
     not_in_condition(NoAlias, wrapped(col_event_id), <<lit_uuid, fn_lower>>),
     binary_condition(NoAlias, "like", lit_canonical, lit_uuid),
     binary_condition(NoAlias, "or",
         binary_condition(NoAlias, "equals", lit_uuid, wrapped(col_trace_id)),
         binary_condition(NoAlias, "equals", col_message, lit_malformed)),
     project_in}

PipelineAsts ==
    {<<>>} \cup {<<c>> : c \in PipelineConjuncts}
           \cup {<<project_in, c>> : c \in PipelineConjuncts}

PipelineQueries ==
    {Query(final, <<>>, ast) : final \in BOOLEAN, ast \in PipelineAsts}

\* How the lookups of the enforcer answer on these queries.
PipelineLookups ==
    {env \in Lookups :
        \/ IsRaise(env.project_ids) /\ IsRaise(env.flags)
        \/ /\ env.project_ids = Returns({1})
           /\ \/ IsRaise(env.flags)
              \/ env.flags.value.exclude_group_ids \in
                     {<<>>, <<1>>, sorted(GroupIds)}}

PipelineSettings ==
    {c \in RequestSettings \X PipelineLookups :
        c[1].turbo => (IsRaise(c[2].project_ids))}

(***************************************************************************)
(* The processors on one Query: state machine                              *)
(***************************************************************************)
Processors == {"uuid", "enforcer"}

InitPipeline ==
    /\ InitTranslator
    /\ ConcatOff /\ ConcurrentOff /\ TreeOff
    /\ uuid_columns \in UUIDConfigs
    /\ condition = NotConstructed
    /\ pattern = "none"
    /\ match_result = NotConstructed
    /\ processed = NotConstructed
    /\ config \in Configs
    /\ query \in PipelineQueries
    /\ query_before = query
    /\ request_settings = NotConstructed
    /\ replacer = NotConstructed
    /\ outcome = "none"
    /\ emitted = {}
    /\ pipeline = [kind |-> "Pipeline", ran |-> <<>>, log |-> <<>>,
                   after_first |-> NotConstructed]

\* No processor has failed and fewer than two have run.
PipelineOpen == Len(pipeline.ran) < 2 /\ outcome \in {"none", "returned"}

\* UUIDColumnProcessor(uuid_columns).process_query(query, request_settings)
RunUUID ==
    /\ PipelineOpen
    /\ \E r \in {uuid_process_query(uuid_columns, query)} :
          /\ query' = r.query
          /\ pipeline' = [pipeline EXCEPT
                             !.ran = Append(@, "uuid"),
                             !.log = r.log,
                             !.after_first =
                                 IF pipeline.ran = <<>> THEN r.query ELSE @]
    /\ outcome' = "returned"
    /\ UNCHANGED <<uuid_columns, condition, pattern, match_result, processed>>
    /\ UNCHANGED <<query_before, request_settings, config, replacer, emitted>>
    /\ UNCHANGED <<translatorVars, concatVars, concurrentVars, treeVars>>

\* PostReplacementConsistencyEnforcer.process_query(query, settings)
RunEnforcer(settings, env) ==
    /\ PipelineOpen
    /\ \A i \in DOMAIN pipeline.ran : pipeline.ran[i] # "enforcer"
    /\ request_settings' = settings
    /\ replacer' = env
    /\ \E r \in {process_query(query, settings, config, env)} :
          /\ query' = r.query
          /\ outcome' = r.outcome
          /\ emitted' = r.emitted
          /\ pipeline' = [pipeline EXCEPT
                             !.ran = Append(@, "enforcer"),
                             !.log = <<>>,
                             !.after_first =
                                 IF pipeline.ran = <<>> THEN r.query ELSE @]
    /\ UNCHANGED <<uuidVars, query_before, config>>
    /\ UNCHANGED <<translatorVars, concatVars, concurrentVars, treeVars>>

NextPipeline ==
    \/ RunUUID
    \/ \E c \in PipelineSettings : RunEnforcer(c[1], c[2])

SpecPipeline == InitPipeline /\ [][NextPipeline]_vars

(***************************************************************************)
(* Properties of the processors run on one Query                           *)
(***************************************************************************)
\* The processor that ran last, and the query as it was handed to it.
LastRan == pipeline.ran[Len(pipeline.ran)]
HandedIn == IF Len(pipeline.ran) = 1 THEN query_before ELSE pipeline.after_first

UUIDRan == pipeline.kind = "Pipeline" /\ pipeline.ran # <<>> /\ LastRan = "uuid"
EnforcerRan ==
    pipeline.kind = "Pipeline" /\ pipeline.ran # <<>> /\ LastRan = "enforcer"

\* The 'replace condition' calls of the last process_query.
Replacements ==
    SelectSeq(pipeline.log, LAMBDA call : call.op # "get_condition_from_ast")

\* C24: UUIDColumnProcessor.process_query replaces the condition at most
\* once per call, with the fully rewritten tree, and touches nothing else;
\* with no condition it calls nothing that changes the query; and a
\* process_query that ends in an error leaves the query as it was handed in.
C24_AtomicReplacement ==
    /\ UUIDRan =>
          /\ Len(Replacements) <= 1
          /\ IF HandedIn.ast_condition = <<>>
             THEN Replacements = <<>> /\ query = HandedIn
             ELSE /\ Replacements =
                        <<ContainerCall(
                              "set_ast_condition",
                              transform_condition(
                                  uuid_columns, get_condition_from_ast(HandedIn)))>>
                  /\ query.ast_condition = <<Replacements[1].arg>>
                  /\ query.final = HandedIn.final
                  /\ query.conditions = HandedIn.conditions
    /\ (pipeline.kind = "Pipeline" /\ outcome \notin {"none", "returned"}) =>
          query = HandedIn

\* C24's case: the processor replaced the condition project_id IN (1) AND
\* event_id = <uuid> by its rewritten form in one call.
C24_Witness ==
    /\ UUIDRan
    /\ Len(HandedIn.ast_condition) = 2
    /\ Len(Replacements) = 1
    /\ query.ast_condition # <<get_condition_from_ast(HandedIn)>>
    /\ query.ast_condition[1].function_name = "and"
    /\ query.ast_condition[1].parameters[2].parameters[1] = col_event_id

RECURSIVE Conjuncts(_)
\* The operands of the conjunction e stands for.
Conjuncts(e) ==
    IF e.kind = "FunctionCall" /\ e.function_name = "and"
    THEN UNION {Conjuncts(e.parameters[i]) : i \in DOMAIN e.parameters}
    ELSE {e}

\* The ANDed operands of the condition of a Query.
ConjunctsOf(q) ==
    UNION {Conjuncts(q.ast_condition[i]) : i \in DOMAIN q.ast_condition}

\* The same FINAL flag, legacy conditions and condition up to the order of
\* the ANDed operands.
SameQuery(q1, q2) ==
    /\ q1.final = q2.final
    /\ q1.conditions = q2.conditions
    /\ ConjunctsOf(q1) = ConjunctsOf(q2)

\* Every node of the condition of the Query is an expression.
ValidQuery(q) ==
    /\ q.kind = "Query"
    /\ q.final \in BOOLEAN
    /\ \A i \in DOMAIN q.ast_condition :
          \A j \in DOMAIN Iter(q.ast_condition[i]) :
             Iter(q.ast_condition[i])[j].kind \in Kinds

\* The two processors run on the query in the order opposite to the one
\* that was taken, with the same settings and the same lookup answers.
OtherOrder ==
    IF pipeline.ran = <<"uuid", "enforcer">>
    THEN uuid_process_query(
             uuid_columns,
             process_query(query_before, request_settings, config, replacer).query
         ).query
    ELSE process_query(uuid_process_query(uuid_columns, query_before).query,
                       request_settings, config, replacer).query

BothRan ==
    /\ pipeline.kind = "Pipeline"
    /\ pipeline.ran \in {<<"uuid", "enforcer">>, <<"enforcer", "uuid">>}
    /\ outcome = "returned"

\* C25: the UUID processor and the active enforcer run on the same query in
\* either order leave the same query (FINAL, legacy conditions, condition up
\* to the order of ANDed operands), and each leaves a valid query.
C25_ProcessorsIndependent ==
    /\ (BothRan /\ config.activated) => SameQuery(query, OtherOrder)
    /\ (pipeline.kind = "Pipeline" /\ pipeline.ran # <<>>) =>
          /\ ValidQuery(query)
          /\ ValidQuery(pipeline.after_first)

\* C25's case: the enforcer added its exclusion to a FINAL query first and
\* the UUID processor rewrote the condition afterwards.
C25_Witness ==
    /\ BothRan /\ config.activated
    /\ pipeline.ran = <<"enforcer", "uuid">>
    /\ query_before.final /\ ~query.final
    /\ Len(pipeline.after_first.ast_condition) = 2
    /\ Cardinality(ConjunctsOf(query)) = 2
    /\ ConjunctsOf(query) # ConjunctsOf(pipeline.after_first)

\* C30: a second process_query of the UUID processor leaves the query as
\* the first one left it.
C30_UUIDIdempotent ==
    (pipeline.kind = "Pipeline" /\ pipeline.ran = <<"uuid", "uuid">>) =>
        query = pipeline.after_first

\* C30's case: the first call rewrote a condition on two conjuncts, the
\* second call found it rewritten.
C30_Witness ==
    /\ pipeline.kind = "Pipeline" /\ pipeline.ran = <<"uuid", "uuid">>
    /\ Len(query_before.ast_condition) = 2
    /\ pipeline.after_first.ast_condition # <<get_condition_from_ast(query_before)>>
    /\ query = pipeline.after_first
    /\ Len(Replacements) = 1


(***************************************************************************)
(* Translation of nested trees: the registry of test_translation and the   *)
(* tree someFunc(anotherFunc(x, 123), yetAnotherOne(y)(z, 123)).           *)
(***************************************************************************)
\* TranslationRules(columns=[ColumnMapper("col", None, "col2", None),
\* ColumnMapper("cola", None, "colb", None)],
\* subscriptables=[TagMapper("tags", None, "tags", None)])
TestRegistry ==
    [TranslationRules EXCEPT
        !.columns = <<Rule("ColumnMapper", "col", "col2"),
                      Rule("ColumnMapper", "cola", "colb")>>,
        !.subscriptables = <<Rule("TagMapper", "tags", "tags")>>]

\* The registries a nested tree is translated through: the test's, and the
\* test's with the subscript rule or the first column rule left out.
DeepRegistries ==
    {TestRegistry,
     [TestRegistry EXCEPT !.subscriptables = <<>>],
     [TestRegistry EXCEPT !.columns = <<Rule("ColumnMapper", "cola", "colb")>>]}

\* The nodes put in the three places of the tree.
DeepLeaves ==
    {c_col, Column(0, NoAlias, "cola", NoAlias), c_col3,
     Column(0, NoAlias, "col", "t1"), l_123, s_tags}

\* FunctionCall(None, "someFunc", (FunctionCall(None, "anotherFunc", (x, 123)),
\* CurriedFunctionCall(None, FunctionCall(None, "yetAnotherOne", (y,)), (z, 123))))
DeepTree(x, y, z) ==
    FunctionCall(0, NoAlias, "someFunc",
        <<FunctionCall(0, NoAlias, "anotherFunc", <<x, l_123>>),
          CurriedFunctionCall(0, NoAlias,
              FunctionCall(0, NoAlias, "yetAnotherOne", <<y>>),
              <<z, l_123>>)>>)

DeepExprs == {Label(DeepTree(x, y, z), 1).exp : x, y, z \in DeepLeaves}

\* The tree of the test and the tree the test expects for it.
TestTree == DeepTree(c_col, s_tags, Column(0, NoAlias, "cola", NoAlias))

TestExpected ==
    DeepTree(Column(0, NoAlias, "col2", NoAlias),
             FunctionCall(0, "tags[release]", "arrayElement",
                 <<Column(0, NoAlias, "tags.value", NoAlias),
                   FunctionCall(0, NoAlias, "indexOf",
                       <<Column(0, NoAlias, "tags.key", NoAlias),
                         Literal(0, NoAlias, "release")>>)>>),
             Column(0, NoAlias, "colb", NoAlias))

InitDeep ==
    /\ InitTranslator
    /\ ConcatOff /\ ConcurrentOff /\ UUIDOff /\ EnforcerOff /\ TreeOff /\ PipelineOff

NextDeep ==
    \/ \E rules \in DeepRegistries : Construct(rules)
    \/ \E exp \in DeepExprs : TranslateExpression(exp)
    \/ Discard

SpecDeep == InitDeep /\ [][NextDeep]_vars

\* The caller rules of a list that match a name, in the list's order.
Matches(rules, type, name) ==
    SelectSeq(rules, LAMBDA r : r.type = type /\ r.from = name)

\* What the caller rules of a registry say about a tree, node by node: a
\* column or subscript a rule matches is the rule's output, any other node
\* is itself with its children treated the same way.
RECURSIVE RewrittenBy(_, _)
RewrittenBy(rules, e) ==
    CASE e.kind = "Column" ->
            Bind(Matches(rules.columns, "ColumnMapper", e.column_name), LAMBDA m :
                IF e.table_name = NoAlias /\ Len(m) > 0
                THEN Column(0, e.alias, m[1].to, NoAlias)
                ELSE Strip(e))
      [] e.kind = "SubscriptableReference" ->
            Bind(Matches(rules.subscriptables, "TagMapper", e.column.column_name),
                 LAMBDA m :
                IF e.column.table_name = NoAlias /\ Len(m) > 0
                THEN FunctionCall(0, e.alias, "arrayElement",
                        <<Column(0, NoAlias, m[1].to \o ".value", NoAlias),
                          FunctionCall(0, NoAlias, "indexOf",
                              <<Column(0, NoAlias, m[1].to \o ".key", NoAlias),
                                RewrittenBy(rules, e.key)>>)>>)
                ELSE SubscriptableReference(0, e.alias, RewrittenBy(rules, e.column),
                                            RewrittenBy(rules, e.key)))
      [] e.kind = "FunctionCall" ->
            FunctionCall(0, e.alias, e.function_name,
                [i \in DOMAIN e.parameters |-> RewrittenBy(rules, e.parameters[i])])
      [] e.kind = "CurriedFunctionCall" ->
            CurriedFunctionCall(0, e.alias, RewrittenBy(rules, e.internal_function),
                [i \in DOMAIN e.parameters |-> RewrittenBy(rules, e.parameters[i])])
      [] OTHER -> Strip(e)

\* A nested tree was translated through one of the registries.
DeepTranslated ==
    /\ caller_rules \in DeepRegistries
    /\ entry = "translate_expression"
    /\ source \in DeepExprs

\* The call went over the tree once: the root was dispatched, and no node
\* of the source was dispatched twice.
OnePass ==
    /\ \E d \in Dispatches : calls[d].node = source.id
    /\ \A d1, d2 \in Dispatches : calls[d1].node = calls[d2].node => d1 = d2

\* C26: translating a nested tree through a registry of column rules and a
\* tag rule rewrites every matching column and subscript wherever it stands
\* (function parameter, inside the inner function of a curried call, curried
\* parameter) in one pass, and every node no caller rule matches comes out
\* structurally unchanged.
C26_RewritesAtEveryDepth ==
    DeepTranslated =>
        /\ IsNode(result)
        /\ Strip(result) = RewrittenBy(caller_rules, source)
        /\ OnePass

\* The tree of the test was translated through the test's registry and came
\* out as the test expects.
C26_Witness ==
    /\ DeepTranslated
    /\ caller_rules = TestRegistry
    /\ Strip(source) = TestTree
    /\ Strip(result) = TestExpected

====
